---- MODULE Spec2Model ----
(***************************************************************************)
(* MemSimX: a memory-management simulator.  One PhysicalMemory is shared   *)
(* by a heap allocator (StandardAllocator with FIRST/BEST/WORST fit, or    *)
(* BuddyAllocator), a two-level cache (CacheLevel, CacheHierarchy) and a   *)
(* demand-paged VirtualMemory.  Every object is one record-valued          *)
(* variable whose fields carry the names of the C++ members.  The engine   *)
(* is single-threaded: every action is one complete public call.          *)
(*                                                                         *)
(* "last" records the call that produced the current state and its         *)
(* Result; "pre" is the state that call started from; "calls" counts the   *)
(* calls made on a cache, a virtual memory or a MemoryManager.  "mgr" is   *)
(* the MemoryManager when the objects are used through one.                *)
(***************************************************************************)
EXTENDS Integers, Sequences, FiniteSets, TLC

VARIABLES memory, std, buddy, l1, l2, hier, vm, mgr, last, pre, calls

vars == <<memory, std, buddy, l1, l2, hier, vm, mgr, last, pre, calls>>

(***************************************************************************)
(* Bounds of the model.                                                    *)
(***************************************************************************)
\* total_size of the memory under a StandardAllocator
StdTotal == 6
\* log2 of the total_size of the memory under a BuddyAllocator
BuddyOrder == 3
\* largest size passed to allocate
MaxReq == 4
\* calls of allocate per run (total_allocations never exceeds it)
MaxAllocs == 3
\* calls of deallocate that the BuddyAllocator counts per run
MaxDeallocs == 2
\* largest address passed to deallocate_by_addr
MaxAddr == 3
\* total_size of the memory under a cache
CacheMemSize == 4
\* calls per run on a CacheLevel or a CacheHierarchy
MaxCalls == 4
\* calls made on a VirtualMemory in one run
MaxVmCalls == 5
\* calls made on a VirtualMemory and a CacheHierarchy that share a memory
MaxSysCalls == 3
\* calls made on a MemoryManager
MaxMgrCalls == 4

(***************************************************************************)
(* Generic helpers.                                                        *)
(***************************************************************************)
RECURSIVE Pow2(_)
Pow2(k) == IF k = 0 THEN 1 ELSE 2 * Pow2(k - 1)

\* std::numeric_limits<size_t>::max(): the largest integer of the model, which
\* every size, address and counter of a bounded run stays far below, so that no
\* 32-bit or 64-bit operation of the program wraps
SizeMax == 2147483647

Null == 0

\* bitwise operations on naturals, bit by bit
RECURSIVE BitXor(_, _)
BitXor(a, b) ==
    IF a = 0 /\ b = 0 THEN 0
    ELSE (((a % 2) + (b % 2)) % 2) + 2 * BitXor(a \div 2, b \div 2)

RECURSIVE BitAnd(_, _)
BitAnd(a, b) ==
    IF a = 0 \/ b = 0 THEN 0
    ELSE ((a % 2) * (b % 2)) + 2 * BitAnd(a \div 2, b \div 2)

RECURSIVE BitOr(_, _)
BitOr(a, b) ==
    IF a = 0 /\ b = 0 THEN 0
    ELSE (IF a % 2 = 1 \/ b % 2 = 1 THEN 1 ELSE 0) + 2 * BitOr(a \div 2, b \div 2)

ShiftRight(a, n) == a \div Pow2(n)
ShiftLeft(a, n) == a * Pow2(n)

\* F at the one element of the set S; the element is computed once, however
\* often F uses it
Once(F(_), S) == CHOOSE r \in {F(x) : x \in S} : TRUE

RECURSIVE SumSeq(_)
SumSeq(s) == IF s = <<>> THEN 0 ELSE Head(s) + SumSeq(Tail(s))

\* an object that a specification does not construct
Idle == [unused |-> TRUE]

\* the call that led to the current state
Call(op, arg, data, success, value) ==
    [op |-> op, arg |-> arg, data |-> data, success |-> success, value |-> value]

\* the state a call starts from
Snapshot ==
    [memory |-> memory, std |-> std, buddy |-> buddy, l1 |-> l1, l2 |-> l2,
     hier |-> hier, vm |-> vm, mgr |-> mgr]

(***************************************************************************)
(* PhysicalMemory                                                          *)
(***************************************************************************)
\* PhysicalMemory::PhysicalMemory(size)
PhysicalMemory(size) ==
    [data |-> [a \in 0..(size - 1) |-> 0], total_size |-> size, used_size |-> 0]

\* updateUsedSize that keeps the old value
updateUsedSizeStale(m, size) == m

\* PhysicalMemory::updateUsedSize
updateUsedSize(m, size) == [m EXCEPT !.used_size = size]

\* Result<void> PhysicalMemory::write(addr, data): the memory afterwards
MemWriteOk(m, addr) == addr < m.total_size
MemWrite(m, addr, data) ==
    IF addr >= m.total_size THEN m
    ELSE [m EXCEPT !.data[addr] = data]

\* Result<uint8_t> PhysicalMemory::read(addr)
MemReadOk(m, addr) == addr < m.total_size
MemRead(m, addr) == IF addr >= m.total_size THEN 0 ELSE m.data[addr]

(***************************************************************************)
(* StandardAllocator                                                       *)
(***************************************************************************)
AllocatorTypes == {"FIRST_FIT", "BEST_FIT", "WORST_FIT"}

\* MemoryBlock(addr, sz, free): id 0; next/prev are the positions in head
MemoryBlock(addr, sz, free) ==
    [start_address |-> addr, size |-> sz, is_free |-> free, id |-> 0]

\* StandardAllocator::StandardAllocator(memory, type)
StandardAllocator(m, type) ==
    [head |-> <<MemoryBlock(0, m.total_size, TRUE)>>,
     strategy |-> type,
     next_block_id |-> 1,
     total_allocations |-> 0,
     failed_allocations |-> 0,
     total_deallocations |-> 0,
     allocated_blocks |-> <<>>,
     address_to_block |-> <<>>,
     requested_sizes |-> <<>>]

\* std::map / unordered_map as a function; operator[] assignment and erase
MapPut(f, k, v) == [x \in (DOMAIN f) \cup {k} |-> IF x = k THEN v ELSE f[x]]
MapErase(f, k) == [x \in (DOMAIN f) \ {k} |-> f[x]]

\* the list position of the block a MemoryBlock* points to: allocated blocks
\* are found by their id, which no other block of the list carries
BlockAt(head, id) == CHOOSE i \in 1..Len(head) : head[i].id = id

\* FIRST_FIT loop of findBlock, from position i on
RECURSIVE FirstFitFrom(_, _, _)
FirstFitFrom(head, size, i) ==
    IF i > Len(head) THEN Null
    ELSE IF head[i].is_free /\ head[i].size >= size THEN i
    ELSE FirstFitFrom(head, size, i + 1)

\* a BEST_FIT loop that keeps the last of the smallest blocks
RECURSIVE BestFitLastFrom(_, _, _, _, _)
BestFitLastFrom(head, size, i, best_block, min_size) ==
    IF i > Len(head) THEN best_block
    ELSE IF head[i].is_free /\ head[i].size >= size /\ head[i].size <= min_size
         THEN BestFitLastFrom(head, size, i + 1, i, head[i].size)
         ELSE BestFitLastFrom(head, size, i + 1, best_block, min_size)

\* BEST_FIT loop of findBlock
RECURSIVE BestFitFrom(_, _, _, _, _)
BestFitFrom(head, size, i, best_block, min_size) ==
    IF i > Len(head) THEN best_block
    ELSE IF head[i].is_free /\ head[i].size >= size /\ head[i].size < min_size
         THEN BestFitFrom(head, size, i + 1, i, head[i].size)
         ELSE BestFitFrom(head, size, i + 1, best_block, min_size)

\* WORST_FIT loop of findBlock
RECURSIVE WorstFitFrom(_, _, _, _, _)
WorstFitFrom(head, size, i, best_block, max_size) ==
    IF i > Len(head) THEN best_block
    ELSE IF head[i].is_free /\ head[i].size >= size /\ head[i].size > max_size
         THEN WorstFitFrom(head, size, i + 1, i, head[i].size)
         ELSE WorstFitFrom(head, size, i + 1, best_block, max_size)

\* StandardAllocator::findBlock: a list position, or Null
findBlock(a, size) ==
    CASE a.strategy = "FIRST_FIT" -> FirstFitFrom(a.head, size, 1)
      [] a.strategy = "BEST_FIT" -> BestFitFrom(a.head, size, 1, Null, SizeMax)
      [] a.strategy = "WORST_FIT" -> WorstFitFrom(a.head, size, 1, Null, 0)
      [] OTHER -> Null

MIN_SPLIT_SIZE == 1

\* a splitBlock that splits off every remainder, one byte included
StdSplitBlockAnyRemainder(head, i, size) ==
    IF head[i].size > size
    THEN LET new_block == MemoryBlock(head[i].start_address + size,
                                      head[i].size - size, TRUE)
         IN  SubSeq(head, 1, i - 1)
             \o <<[head[i] EXCEPT !.size = size], new_block>>
             \o SubSeq(head, i + 1, Len(head))
    ELSE head

\* StandardAllocator::splitBlock: the list afterwards
StdSplitBlock(head, i, size) ==
    IF head[i].size > size + MIN_SPLIT_SIZE
    THEN LET new_block == MemoryBlock(head[i].start_address + size,
                                      head[i].size - size, TRUE)
         IN  SubSeq(head, 1, i - 1)
             \o <<[head[i] EXCEPT !.size = size], new_block>>
             \o SubSeq(head, i + 1, Len(head))
    ELSE head

\* the while loop of coalesceBlock: absorb every free successor
RECURSIVE MergeNext(_, _)
MergeNext(head, i) ==
    IF i < Len(head) /\ head[i + 1].is_free
    THEN MergeNext(SubSeq(head, 1, i - 1)
                   \o <<[head[i] EXCEPT !.size = head[i].size + head[i + 1].size]>>
                   \o SubSeq(head, i + 2, Len(head)), i)
    ELSE head

\* the second half of coalesceBlock: be absorbed by a free predecessor
MergePrev(head, i) ==
    IF i > 1 /\ head[i - 1].is_free
    THEN SubSeq(head, 1, i - 2)
         \o <<[head[i - 1] EXCEPT !.size = head[i - 1].size + head[i].size]>>
         \o SubSeq(head, i + 1, Len(head))
    ELSE head

\* coalesceBlock without its merge into the predecessor
StdCoalesceForwardOnly(head, i) ==
    IF i = Null \/ ~head[i].is_free THEN head
    ELSE MergeNext(head, i)

\* StandardAllocator::coalesceBlock
StdCoalesceBlock(head, i) ==
    IF i = Null \/ ~head[i].is_free THEN head
    ELSE MergePrev(MergeNext(head, i), i)

\* the walk that sums the sizes of the blocks that are not free
RECURSIVE TotalUsed(_)
TotalUsed(head) ==
    IF head = <<>> THEN 0
    ELSE (IF Head(head).is_free THEN 0 ELSE Head(head).size) + TotalUsed(Tail(head))

\* allocate that does not count its failures
StdAllocateUncountedCall(a, m, size) ==
    LET counted == [a EXCEPT !.total_allocations = a.total_allocations + 1]
        failed == counted
        block == findBlock(a, size)
    IN  IF size = 0
        THEN [std |-> failed, memory |-> m, success |-> FALSE, value |-> 0]
        ELSE IF block = Null
        THEN [std |-> failed, memory |-> m, success |-> FALSE, value |-> 0]
        ELSE LET split == StdSplitBlock(a.head, block, size)
                 id == a.next_block_id
                 head2 == [split EXCEPT ![block].is_free = FALSE, ![block].id = id]
             IN  [std |-> [counted EXCEPT
                             !.head = head2,
                             !.next_block_id = id + 1,
                             !.allocated_blocks =
                                 MapPut(a.allocated_blocks, id, head2[block].start_address),
                             !.address_to_block =
                                 MapPut(a.address_to_block, head2[block].start_address, id),
                             !.requested_sizes = MapPut(a.requested_sizes, id, size)],
                  memory |-> updateUsedSize(m, TotalUsed(head2)),
                  success |-> TRUE, value |-> id]

\* Result<BlockId> StandardAllocator::allocate(size): the allocator, the memory
\* and the Result afterwards
StdAllocateCall(a, m, size) ==
    LET counted == [a EXCEPT !.total_allocations = a.total_allocations + 1]
        failed == [counted EXCEPT !.failed_allocations = a.failed_allocations + 1]
        block == findBlock(a, size)
    IN  IF size = 0
        THEN [std |-> failed, memory |-> m, success |-> FALSE, value |-> 0]
        ELSE IF block = Null
        THEN [std |-> failed, memory |-> m, success |-> FALSE, value |-> 0]
        ELSE LET split == StdSplitBlock(a.head, block, size)
                 id == a.next_block_id
                 head2 == [split EXCEPT ![block].is_free = FALSE, ![block].id = id]
             IN  [std |-> [counted EXCEPT
                             !.head = head2,
                             !.next_block_id = id + 1,
                             !.allocated_blocks =
                                 MapPut(a.allocated_blocks, id, head2[block].start_address),
                             !.address_to_block =
                                 MapPut(a.address_to_block, head2[block].start_address, id),
                             !.requested_sizes = MapPut(a.requested_sizes, id, size)],
                  memory |-> updateUsedSize(m, TotalUsed(head2)),
                  success |-> TRUE, value |-> id]

\* Result<void> StandardAllocator::deallocate(block_id)
StdDeallocateCall(a, m, block_id) ==
    IF block_id \notin DOMAIN a.allocated_blocks
    THEN [std |-> a, memory |-> m, success |-> FALSE, value |-> 0]
    ELSE LET block == BlockAt(a.head, block_id)
             freed == [a.head EXCEPT ![block].is_free = TRUE, ![block].id = 0]
             head2 == StdCoalesceBlock(freed, block)
         IN  [std |-> [a EXCEPT
                         !.head = head2,
                         !.allocated_blocks = MapErase(a.allocated_blocks, block_id),
                         !.address_to_block =
                             MapErase(a.address_to_block, a.head[block].start_address),
                         !.requested_sizes = MapErase(a.requested_sizes, block_id),
                         !.total_deallocations = a.total_deallocations + 1],
              memory |-> updateUsedSize(m, TotalUsed(head2)),
              success |-> TRUE, value |-> 0]

\* deallocateByAddress that frees the live block the address lies in
StdDeallocateContainingCall(a, m, address) ==
    LET live == {i \in 1..Len(a.head) :
                    /\ ~a.head[i].is_free
                    /\ a.head[i].start_address <= address
                    /\ address < a.head[i].start_address + a.head[i].size}
    IN  IF live = {}
        THEN [std |-> a, memory |-> m, success |-> FALSE, value |-> 0]
        ELSE StdDeallocateCall(a, m, a.head[CHOOSE i \in live : TRUE].id)

\* Result<void> StandardAllocator::deallocateByAddress(address)
StdDeallocateByAddressCall(a, m, address) ==
    IF address \notin DOMAIN a.address_to_block
    THEN [std |-> a, memory |-> m, success |-> FALSE, value |-> 0]
    ELSE StdDeallocateCall(a, m, a.address_to_block[address])

(***************************************************************************)
(* BuddyAllocator                                                          *)
(***************************************************************************)
\* BuddyBlock(addr, sz, free): id 0
BuddyBlock(addr, sz, free) ==
    [start_address |-> addr, size |-> sz, is_free |-> free, id |-> 0]

\* nullptr as a BuddyBlock*
NoBlock == [start_address |-> 0, size |-> 0, is_free |-> FALSE, id |-> 0]

\* BuddyAllocator::isPowerOfTwo
isPowerOfTwo(n) == n > 0 /\ BitAnd(n, n - 1) = 0

\* the while loop of roundUpToPowerOfTwo, where it ends
RECURSIVE RoundLoop(_, _)
RoundLoop(power, size) == IF power < size THEN RoundLoop(power * 2, size) ELSE power

\* whether the while loop ends: size_t holds 0..SizeMax, so doubling the top
\* power of two gives 0, and 0 stays below the size for ever
RECURSIVE RoundLoopEnds(_, _)
RoundLoopEnds(power, size) ==
    IF power >= size THEN TRUE
    ELSE IF power > SizeMax \div 2 THEN FALSE
    ELSE RoundLoopEnds(power * 2, size)

\* whether roundUpToPowerOfTwo returns
roundUpReturns(size) ==
    size = 0 \/ isPowerOfTwo(size) \/ RoundLoopEnds(1, size)

\* BuddyAllocator::roundUpToPowerOfTwo
roundUpToPowerOfTwo(size) ==
    IF size = 0 THEN 1
    ELSE IF isPowerOfTwo(size) THEN size
    ELSE RoundLoop(1, size)

\* the buddy taken to be the block that follows
getBuddyAddressNext(addr, size) == addr + size

\* BuddyAllocator::getBuddyAddress
getBuddyAddress(addr, size) == BitXor(addr, size)

\* the keys free_lists_ can get: the block sizes from 1 to the total size; a key
\* the std::map does not hold yet is an empty list here
SizeClasses(max_block_size) ==
    {sz \in 1..max_block_size : isPowerOfTwo(sz)}

\* a free list that takes a block at its front
addToFreeListFront(fl, block) == [fl EXCEPT ![block.size] = <<block>> \o @]

\* BuddyAllocator::addToFreeList
addToFreeList(fl, block) == [fl EXCEPT ![block.size] = Append(@, block)]

\* std::list::remove of the pointer; a block is known by its start address
SameBlock(x, block) == x.start_address = block.start_address
removeFromFreeList(fl, block) ==
    [fl EXCEPT ![block.size] = SelectSeq(@, LAMBDA x : ~SameBlock(x, block))]

\* BuddyAllocator::findFreeBlock
findFreeBlock(fl, size) ==
    IF size \notin DOMAIN fl \/ fl[size] = <<>> THEN NoBlock ELSE Head(fl[size])

\* BuddyAllocator::BuddyAllocator(memory, min_block_size), for a total size and
\* a minimum block size the constructor accepts
BuddyAllocator(m, min_block_size) ==
    [min_block_size |-> min_block_size,
     max_block_size |-> m.total_size,
     free_lists |-> [sz \in SizeClasses(m.total_size) |->
                        IF sz = m.total_size
                        THEN <<BuddyBlock(0, m.total_size, TRUE)>> ELSE <<>>],
     allocated_blocks |-> <<>>,
     address_to_block |-> <<>>,
     requested_sizes |-> <<>>,
     next_block_id |-> 1,
     total_allocations |-> 0,
     failed_allocations |-> 0,
     total_deallocations |-> 0]

\* BuddyAllocator::BuddyAllocator with its validation: whether it returns, and
\* the allocator when it does
BuddyAllocatorNew(m, min_block_size) ==
    IF ~isPowerOfTwo(m.total_size) THEN [success |-> FALSE, buddy |-> Idle]
    ELSE IF ~isPowerOfTwo(min_block_size) THEN [success |-> FALSE, buddy |-> Idle]
    ELSE [success |-> TRUE, buddy |-> BuddyAllocator(m, min_block_size)]

\* BuddyAllocator::splitBlock(current_size, target_size): the free lists
\* afterwards and the block returned
RECURSIVE BuddySplitBlock(_, _, _, _)
BuddySplitBlock(fl, max_block_size, current_size, target_size) ==
    LET found == findFreeBlock(fl, current_size)
    IN  IF current_size = target_size
        THEN IF found # NoBlock
             THEN [free_lists |-> removeFromFreeList(fl, found), block |-> found]
             ELSE IF current_size >= max_block_size
             THEN [free_lists |-> fl, block |-> NoBlock]
             ELSE BuddySplitBlock(fl, max_block_size, current_size * 2, target_size)
        ELSE IF found = NoBlock
             THEN IF current_size >= max_block_size
                  THEN [free_lists |-> fl, block |-> NoBlock]
                  ELSE BuddySplitBlock(fl, max_block_size, current_size * 2, target_size)
             ELSE LET half_size == current_size \div 2
                      left_buddy == BuddyBlock(found.start_address, half_size, TRUE)
                      right_buddy ==
                          BuddyBlock(found.start_address + half_size, half_size, TRUE)
                      fl2 == addToFreeList(
                                 addToFreeList(removeFromFreeList(fl, found), left_buddy),
                                 right_buddy)
                  IN  BuddySplitBlock(fl2, max_block_size, half_size, target_size)

\* the search of coalesceBlock for the buddy in the free list of the block's size
RECURSIVE FindBuddy(_, _)
FindBuddy(free_list, buddy_addr) ==
    IF free_list = <<>> THEN NoBlock
    ELSE IF Head(free_list).start_address = buddy_addr /\ Head(free_list).is_free
    THEN Head(free_list)
    ELSE FindBuddy(Tail(free_list), buddy_addr)

\* BuddyAllocator::coalesceBlock: the free lists afterwards
RECURSIVE BuddyCoalesceBlock(_, _, _)
BuddyCoalesceBlock(fl, max_block_size, block) ==
    IF block = NoBlock \/ ~block.is_free THEN fl
    ELSE IF block.size >= max_block_size THEN fl
    ELSE LET buddy_addr == getBuddyAddress(block.start_address, block.size)
             found == FindBuddy(fl[block.size], buddy_addr)
         IN  IF found = NoBlock THEN fl
             ELSE LET left == IF block.start_address < found.start_address
                              THEN block ELSE found
                      right == IF block.start_address < found.start_address
                               THEN found ELSE block
                      merged == BuddyBlock(left.start_address, left.size * 2, TRUE)
                      fl2 == addToFreeList(
                                 removeFromFreeList(removeFromFreeList(fl, left), right),
                                 merged)
                  IN  BuddyCoalesceBlock(fl2, max_block_size, merged)

\* the loop over allocated_blocks_ that sums the block sizes
RECURSIVE BuddyTotalUsed(_)
BuddyTotalUsed(allocated_blocks) ==
    IF DOMAIN allocated_blocks = {} THEN 0
    ELSE LET id == CHOOSE x \in DOMAIN allocated_blocks : TRUE
         IN  allocated_blocks[id].size + BuddyTotalUsed(MapErase(allocated_blocks, id))

\* allocate that numbers the block after the count of live blocks
BuddyAllocateReusedIdCall(b, m, size) ==
    LET counted == [b EXCEPT !.total_allocations = b.total_allocations + 1]
        failed == [counted EXCEPT !.failed_allocations = b.failed_allocations + 1]
        rounded == roundUpToPowerOfTwo(size)
        actual_size == IF rounded < b.min_block_size THEN b.min_block_size ELSE rounded
    IN  IF size = 0
        THEN [buddy |-> failed, memory |-> m, success |-> FALSE, value |-> 0,
              returns |-> TRUE]
        ELSE IF ~roundUpReturns(size)
        THEN [buddy |-> counted, memory |-> m, success |-> FALSE, value |-> 0,
              returns |-> FALSE]
        ELSE IF actual_size > b.max_block_size
        THEN [buddy |-> failed, memory |-> m, success |-> FALSE, value |-> 0,
              returns |-> TRUE]
        ELSE LET got == BuddySplitBlock(b.free_lists, b.max_block_size,
                                        actual_size, actual_size)
                 id == Cardinality(DOMAIN b.allocated_blocks) + 1
                 block == [got.block EXCEPT !.is_free = FALSE, !.id = id]
                 allocated == MapPut(b.allocated_blocks, id, block)
             IN  IF got.block = NoBlock
                 THEN [buddy |-> [failed EXCEPT !.free_lists = got.free_lists],
                       memory |-> m, success |-> FALSE, value |-> 0,
                       returns |-> TRUE]
                 ELSE [buddy |-> [counted EXCEPT
                                    !.free_lists = got.free_lists,
                                    !.next_block_id = id + 1,
                                    !.allocated_blocks = allocated,
                                    !.address_to_block =
                                        MapPut(b.address_to_block, block.start_address, id),
                                    !.requested_sizes =
                                        MapPut(b.requested_sizes, id, size)],
                       memory |-> updateUsedSize(m, BuddyTotalUsed(allocated)),
                       success |-> TRUE, value |-> id,
                       returns |-> TRUE]

\* Result<BlockId> BuddyAllocator::allocate(size)
BuddyAllocateCall(b, m, size) ==
    LET counted == [b EXCEPT !.total_allocations = b.total_allocations + 1]
        failed == [counted EXCEPT !.failed_allocations = b.failed_allocations + 1]
        rounded == roundUpToPowerOfTwo(size)
        actual_size == IF rounded < b.min_block_size THEN b.min_block_size ELSE rounded
    IN  IF size = 0
        THEN [buddy |-> failed, memory |-> m, success |-> FALSE, value |-> 0,
              returns |-> TRUE]
        ELSE IF ~roundUpReturns(size)
        THEN [buddy |-> counted, memory |-> m, success |-> FALSE, value |-> 0,
              returns |-> FALSE]
        ELSE IF actual_size > b.max_block_size
        THEN [buddy |-> failed, memory |-> m, success |-> FALSE, value |-> 0,
              returns |-> TRUE]
        ELSE LET got == BuddySplitBlock(b.free_lists, b.max_block_size,
                                        actual_size, actual_size)
                 id == b.next_block_id
                 block == [got.block EXCEPT !.is_free = FALSE, !.id = id]
                 allocated == MapPut(b.allocated_blocks, id, block)
             IN  IF got.block = NoBlock
                 THEN [buddy |-> [failed EXCEPT !.free_lists = got.free_lists],
                       memory |-> m, success |-> FALSE, value |-> 0,
                       returns |-> TRUE]
                 ELSE [buddy |-> [counted EXCEPT
                                    !.free_lists = got.free_lists,
                                    !.next_block_id = id + 1,
                                    !.allocated_blocks = allocated,
                                    !.address_to_block =
                                        MapPut(b.address_to_block, block.start_address, id),
                                    !.requested_sizes =
                                        MapPut(b.requested_sizes, id, size)],
                       memory |-> updateUsedSize(m, BuddyTotalUsed(allocated)),
                       success |-> TRUE, value |-> id,
                       returns |-> TRUE]

\* Result<void> BuddyAllocator::deallocate(block_id)
BuddyDeallocateCall(b, m, block_id) ==
    LET counted == [b EXCEPT !.total_deallocations = b.total_deallocations + 1]
    IN  IF block_id \notin DOMAIN b.allocated_blocks
        THEN [buddy |-> counted, memory |-> m, success |-> FALSE, value |-> 0]
        ELSE LET block == [b.allocated_blocks[block_id] EXCEPT
                              !.is_free = TRUE, !.id = 0]
                 allocated == MapErase(b.allocated_blocks, block_id)
                 fl == BuddyCoalesceBlock(addToFreeList(b.free_lists, block),
                                          b.max_block_size, block)
             IN  [buddy |-> [counted EXCEPT
                               !.free_lists = fl,
                               !.allocated_blocks = allocated,
                               !.address_to_block =
                                   MapErase(b.address_to_block, block.start_address),
                               !.requested_sizes = MapErase(b.requested_sizes, block_id)],
                  memory |-> updateUsedSize(m, BuddyTotalUsed(allocated)),
                  success |-> TRUE, value |-> 0]

\* Result<void> BuddyAllocator::deallocateByAddress(address)
BuddyDeallocateByAddressCall(b, m, address) ==
    IF address \notin DOMAIN b.address_to_block
    THEN [buddy |-> b, memory |-> m, success |-> FALSE, value |-> 0]
    ELSE BuddyDeallocateCall(b, m, b.address_to_block[address])

(***************************************************************************)
(* CacheLine and CacheLevel                                                *)
(***************************************************************************)
CachePolicies == {"FIFO", "LRU", "LFU"}

\* CacheLine::CacheLine(block_size)
CacheLine(block_size) ==
    [valid |-> FALSE, tag |-> 0,
     data |-> [i \in 0..(block_size - 1) |-> 0],
     insertion_order |-> 0, last_access_time |-> 0, access_count |-> 0]

\* CacheLine::invalidate: the data bytes stay
invalidate(line) ==
    [line EXCEPT !.valid = FALSE, !.tag = 0, !.insertion_order = 0,
                 !.last_access_time = 0, !.access_count = 0]

\* CacheLine::recordAccess
recordAccess(line, current_time) ==
    [line EXCEPT !.last_access_time = current_time,
                 !.access_count = line.access_count + 1]

\* CacheLevel::calculateBits
RECURSIVE calculateBits(_)
calculateBits(value) ==
    IF value = 0 THEN 0 ELSE 1 + calculateBits(ShiftRight(value, 1))

\* CacheLevel::CacheLevel for parameters its validation accepts; the ways of a
\* set are numbered from 1, Null is no line
CacheLevel(level, num_sets, associativity, block_size, policy) ==
    [level |-> level,
     num_sets |-> num_sets,
     associativity |-> associativity,
     block_size |-> block_size,
     policy |-> policy,
     global_time |-> 0,
     offset_bits |-> calculateBits(block_size - 1),
     index_bits |-> calculateBits(num_sets - 1),
     sets |-> [set_index \in 0..(num_sets - 1) |->
                  [way \in 1..associativity |-> CacheLine(block_size)]],
     stats |-> [hits |-> 0, misses |-> 0, accesses |-> 0]]

\* CacheLevel::parseAddress
parseAddress(c, address) ==
    [offset |-> BitAnd(address, Pow2(c.offset_bits) - 1),
     set_index |-> BitAnd(ShiftRight(address, c.offset_bits), Pow2(c.index_bits) - 1),
     tag |-> ShiftRight(address, c.offset_bits + c.index_bits)]

\* the loop of findLine and of contains, from way i on
RECURSIVE FindLineFrom(_, _, _)
FindLineFrom(set, tag, i) ==
    IF i > Len(set) THEN Null
    ELSE IF set[i].valid /\ set[i].tag = tag THEN i
    ELSE FindLineFrom(set, tag, i + 1)

\* a findLine that looks at the first way of the set only
findLineFirstWay(c, set_index, tag) ==
    IF c.sets[set_index][1].valid /\ c.sets[set_index][1].tag = tag THEN 1 ELSE Null

\* CacheLevel::findLine: a way, or Null
findLine(c, set_index, tag) == FindLineFrom(c.sets[set_index], tag, 1)

\* a contains that takes a line by its tag alone
containsTag(c, address) ==
    LET p == parseAddress(c, address)
    IN  \E way \in DOMAIN c.sets[p.set_index] : c.sets[p.set_index][way].tag = p.tag

\* CacheLevel::contains
contains(c, address) ==
    LET p == parseAddress(c, address)
    IN  FindLineFrom(c.sets[p.set_index], p.tag, 1) # Null

\* the first loop of selectVictim: the first invalid way, or Null
RECURSIVE FirstInvalid(_, _)
FirstInvalid(set, i) ==
    IF i > Len(set) THEN Null
    ELSE IF ~set[i].valid THEN i
    ELSE FirstInvalid(set, i + 1)

\* the policy loops of selectVictim over the field the policy orders by
RECURSIVE MinWay(_, _, _, _, _)
MinWay(set, field, i, victim, min) ==
    IF i > Len(set) THEN victim
    ELSE IF set[i][field] < min
         THEN MinWay(set, field, i + 1, i, set[i][field])
         ELSE MinWay(set, field, i + 1, victim, min)

\* every policy ordering the lines by the time of their load
PolicyFieldInsertion(policy) == "insertion_order"

\* every policy ordering the lines by the time of their last access
PolicyFieldAccess(policy) == "last_access_time"

\* the cache line field each replacement policy orders by
PolicyField(policy) ==
    CASE policy = "FIFO" -> "insertion_order"
      [] policy = "LRU" -> "last_access_time"
      [] policy = "LFU" -> "access_count"

\* CacheLevel::selectVictim
selectVictim(c, set_index) ==
    LET set == c.sets[set_index]
        field == PolicyField(c.policy)
    IN  IF FirstInvalid(set, 1) # Null THEN FirstInvalid(set, 1)
        ELSE MinWay(set, field, 2, 1, set[1][field])

\* CacheLevel::loadBlock: the cache afterwards
loadBlock(c, m, address, tag, set_index, way_index) ==
    LET block_address == ShiftLeft(ShiftRight(address, c.offset_bits), c.offset_bits)
        line == [valid |-> TRUE,
                 tag |-> tag,
                 data |-> [i \in 0..(c.block_size - 1) |->
                              IF MemReadOk(m, block_address + i)
                              THEN MemRead(m, block_address + i) ELSE 0],
                 insertion_order |-> c.global_time,
                 last_access_time |-> c.global_time,
                 access_count |-> 1]
    IN  [c EXCEPT !.sets[set_index][way_index] = line]

\* Result<uint8_t> CacheLevel::read(address)
CacheReadCall(c, m, address) ==
    LET c1 == [c EXCEPT !.stats.accesses = c.stats.accesses + 1,
                        !.global_time = c.global_time + 1]
        p == parseAddress(c1, address)
        line == findLine(c1, p.set_index, p.tag)
    IN  IF line # Null
        THEN LET c2 == [c1 EXCEPT
                          !.stats.hits = c1.stats.hits + 1,
                          !.sets[p.set_index][line] =
                              recordAccess(c1.sets[p.set_index][line], c1.global_time)]
             IN  [cache |-> c2, memory |-> m, success |-> TRUE,
                  value |-> c2.sets[p.set_index][line].data[p.offset]]
        ELSE LET c2 == [c1 EXCEPT !.stats.misses = c1.stats.misses + 1]
                 victim_way == selectVictim(c2, p.set_index)
                 c3 == loadBlock(c2, m, address, p.tag, p.set_index, victim_way)
             IN  [cache |-> c3, memory |-> m, success |-> TRUE,
                  value |-> c3.sets[p.set_index][victim_way].data[p.offset]]

\* a write that allocates no line on a miss: the byte goes to the memory, the
\* miss is counted and the cache is left alone
CacheWriteNoAllocateCall(c, m, address, data) ==
    LET c1 == [c EXCEPT !.stats.accesses = c.stats.accesses + 1,
                        !.global_time = c.global_time + 1]
        p == parseAddress(c1, address)
        m1 == MemWrite(m, address, data)
        line == findLine(c1, p.set_index, p.tag)
    IN  IF ~MemWriteOk(m, address)
        THEN [cache |-> c1, memory |-> m, success |-> FALSE, value |-> 0]
        ELSE IF line # Null
        THEN LET c2 == [c1 EXCEPT
                          !.stats.hits = c1.stats.hits + 1,
                          !.sets[p.set_index][line] =
                              recordAccess(
                                  [c1.sets[p.set_index][line] EXCEPT !.data[p.offset] = data],
                                  c1.global_time)]
             IN  [cache |-> c2, memory |-> m1, success |-> TRUE, value |-> 0]
        ELSE [cache |-> [c1 EXCEPT !.stats.misses = c1.stats.misses + 1],
              memory |-> m1, success |-> TRUE, value |-> 0]

\* Result<void> CacheLevel::write(address, data)
CacheWriteCall(c, m, address, data) ==
    LET c1 == [c EXCEPT !.stats.accesses = c.stats.accesses + 1,
                        !.global_time = c.global_time + 1]
        p == parseAddress(c1, address)
        m1 == MemWrite(m, address, data)
        line == findLine(c1, p.set_index, p.tag)
    IN  IF ~MemWriteOk(m, address)
        THEN [cache |-> c1, memory |-> m, success |-> FALSE, value |-> 0]
        ELSE IF line # Null
        THEN LET c2 == [c1 EXCEPT
                          !.stats.hits = c1.stats.hits + 1,
                          !.sets[p.set_index][line] =
                              recordAccess(
                                  [c1.sets[p.set_index][line] EXCEPT !.data[p.offset] = data],
                                  c1.global_time)]
             IN  [cache |-> c2, memory |-> m1, success |-> TRUE, value |-> 0]
        ELSE LET c2 == [c1 EXCEPT !.stats.misses = c1.stats.misses + 1]
                 victim_way == selectVictim(c2, p.set_index)
                 c3 == loadBlock(c2, m1, address, p.tag, p.set_index, victim_way)
                 c4 == [c3 EXCEPT !.sets[p.set_index][victim_way].data[p.offset] = data]
             IN  [cache |-> c4, memory |-> m1, success |-> TRUE, value |-> 0]

\* a flush that also clears the statistics
CacheFlushStatsCall(c) ==
    [c EXCEPT !.sets = [set_index \in DOMAIN c.sets |->
                           [way \in DOMAIN c.sets[set_index] |->
                               invalidate(c.sets[set_index][way])]],
              !.stats = [hits |-> 0, misses |-> 0, accesses |-> 0]]

\* CacheLevel::flush
CacheFlushCall(c) ==
    [c EXCEPT !.sets = [set_index \in DOMAIN c.sets |->
                           [way \in DOMAIN c.sets[set_index] |->
                               invalidate(c.sets[set_index][way])]]]

(***************************************************************************)
(* CacheHierarchy                                                          *)
(***************************************************************************)
\* CacheHierarchy::CacheHierarchy: the member of its own; L1 and L2 are the
\* variables l1 and l2
CacheHierarchy == [memory_access_count |-> 0]

\* a read that leaves L1 alone when L2 serves it
HierReadL2OnlyCall(h, c1, c2, m, address) ==
    IF contains(c1, address)
    THEN LET r == CacheReadCall(c1, m, address)
         IN  [hier |-> h, l1 |-> r.cache, l2 |-> c2, memory |-> r.memory,
              success |-> r.success, value |-> r.value]
    ELSE IF contains(c2, address)
    THEN LET r == CacheReadCall(c2, m, address)
         IN  [hier |-> h, l1 |-> c1, l2 |-> r.cache, memory |-> r.memory,
              success |-> r.success, value |-> r.value]
    ELSE LET h1 == [h EXCEPT !.memory_access_count = h.memory_access_count + 1]
             w2 == CacheWriteCall(c2, m, address, MemRead(m, address))
             w1 == CacheWriteCall(c1, w2.memory, address, MemRead(m, address))
         IN  IF MemReadOk(m, address)
             THEN [hier |-> h1, l1 |-> w1.cache, l2 |-> w2.cache, memory |-> w1.memory,
                   success |-> TRUE, value |-> MemRead(m, address)]
             ELSE [hier |-> h1, l1 |-> c1, l2 |-> c2, memory |-> m,
                   success |-> FALSE, value |-> 0]

\* a read that goes to the memory when L1 does not hold the address, whether
\* L2 holds it or not
HierReadPastL2Call(h, c1, c2, m, address) ==
    IF contains(c1, address)
    THEN LET r == CacheReadCall(c1, m, address)
         IN  [hier |-> h, l1 |-> r.cache, l2 |-> c2, memory |-> r.memory,
              success |-> r.success, value |-> r.value]
    ELSE LET h1 == [h EXCEPT !.memory_access_count = h.memory_access_count + 1]
             w2 == CacheWriteCall(c2, m, address, MemRead(m, address))
             w1 == CacheWriteCall(c1, w2.memory, address, MemRead(m, address))
         IN  IF MemReadOk(m, address)
             THEN [hier |-> h1, l1 |-> w1.cache, l2 |-> w2.cache, memory |-> w1.memory,
                   success |-> TRUE, value |-> MemRead(m, address)]
             ELSE [hier |-> h1, l1 |-> c1, l2 |-> c2, memory |-> m,
                   success |-> FALSE, value |-> 0]

\* Result<uint8_t> CacheHierarchy::read(address)
HierReadCall(h, c1, c2, m, address) ==
    IF contains(c1, address)
    THEN LET r == CacheReadCall(c1, m, address)
         IN  [hier |-> h, l1 |-> r.cache, l2 |-> c2, memory |-> r.memory,
              success |-> r.success, value |-> r.value]
    ELSE IF contains(c2, address)
    THEN LET r == CacheReadCall(c2, m, address)
             w == CacheWriteCall(c1, r.memory, address, r.value)
         IN  IF r.success
             THEN [hier |-> h, l1 |-> w.cache, l2 |-> r.cache, memory |-> w.memory,
                   success |-> r.success, value |-> r.value]
             ELSE [hier |-> h, l1 |-> c1, l2 |-> r.cache, memory |-> r.memory,
                   success |-> r.success, value |-> r.value]
    ELSE LET h1 == [h EXCEPT !.memory_access_count = h.memory_access_count + 1]
             w2 == CacheWriteCall(c2, m, address, MemRead(m, address))
             w1 == CacheWriteCall(c1, w2.memory, address, MemRead(m, address))
         IN  IF MemReadOk(m, address)
             THEN [hier |-> h1, l1 |-> w1.cache, l2 |-> w2.cache, memory |-> w1.memory,
                   success |-> TRUE, value |-> MemRead(m, address)]
             ELSE [hier |-> h1, l1 |-> c1, l2 |-> c2, memory |-> m,
                   success |-> FALSE, value |-> 0]

\* a write that stops at L1 when L1 holds the address (write-back)
HierWriteBackCall(h, c1, c2, m, address, data) ==
    IF ~MemWriteOk(m, address)
    THEN [hier |-> h, l1 |-> c1, l2 |-> c2, memory |-> m,
          success |-> FALSE, value |-> 0]
    ELSE IF contains(c1, address)
    THEN LET p == parseAddress(c1, address)
             line == findLine(c1, p.set_index, p.tag)
         IN  [hier |-> h,
              l1 |-> [c1 EXCEPT !.sets[p.set_index][line].data[p.offset] = data],
              l2 |-> c2, memory |-> m, success |-> TRUE, value |-> 0]
    ELSE LET m1 == MemWrite(m, address, data)
             w2 == IF contains(c2, address)
                   THEN CacheWriteCall(c2, m1, address, data)
                   ELSE [cache |-> c2, memory |-> m1]
         IN  [hier |-> h, l1 |-> c1, l2 |-> w2.cache, memory |-> w2.memory,
              success |-> TRUE, value |-> 0]

\* a write that also fills the levels that do not hold the address
HierWriteAllocateCall(h, c1, c2, m, address, data) ==
    IF ~MemWriteOk(m, address)
    THEN [hier |-> h, l1 |-> c1, l2 |-> c2, memory |-> m,
          success |-> FALSE, value |-> 0]
    ELSE LET w1 == CacheWriteCall(c1, MemWrite(m, address, data), address, data)
             w2 == CacheWriteCall(c2, w1.memory, address, data)
         IN  [hier |-> h, l1 |-> w1.cache, l2 |-> w2.cache, memory |-> w2.memory,
              success |-> TRUE, value |-> 0]

\* a write that stores the byte in the memory and in L1 and leaves L2 alone
HierWriteL1OnlyCall(h, c1, c2, m, address, data) ==
    IF ~MemWriteOk(m, address)
    THEN [hier |-> h, l1 |-> c1, l2 |-> c2, memory |-> m,
          success |-> FALSE, value |-> 0]
    ELSE LET m1 == MemWrite(m, address, data)
             w1 == IF contains(c1, address)
                   THEN CacheWriteCall(c1, m1, address, data)
                   ELSE [cache |-> c1, memory |-> m1]
         IN  [hier |-> h, l1 |-> w1.cache, l2 |-> c2, memory |-> w1.memory,
              success |-> TRUE, value |-> 0]

\* Result<void> CacheHierarchy::write(address, data)
HierWriteCall(h, c1, c2, m, address, data) ==
    IF ~MemWriteOk(m, address)
    THEN [hier |-> h, l1 |-> c1, l2 |-> c2, memory |-> m,
          success |-> FALSE, value |-> 0]
    ELSE LET m1 == MemWrite(m, address, data)
             w1 == IF contains(c1, address)
                   THEN CacheWriteCall(c1, m1, address, data)
                   ELSE [cache |-> c1, memory |-> m1]
             w2 == IF contains(c2, address)
                   THEN CacheWriteCall(c2, w1.memory, address, data)
                   ELSE [cache |-> c2, memory |-> w1.memory]
         IN  [hier |-> h, l1 |-> w1.cache, l2 |-> w2.cache, memory |-> w2.memory,
              success |-> TRUE, value |-> 0]

(***************************************************************************)
(* PageTableEntry and VirtualMemory                                        *)
(***************************************************************************)
PageReplacementPolicies == {"FIFO", "LRU", "CLOCK"}

\* PageTableEntry::PageTableEntry
PageTableEntry ==
    [valid |-> FALSE, frame_number |-> 0, dirty |-> FALSE, referenced |-> FALSE,
     load_time |-> 0, last_access |-> 0]

\* PageTableEntry::invalidate
PteInvalidate(pte) ==
    [pte EXCEPT !.valid = FALSE, !.frame_number = 0, !.dirty = FALSE,
                !.referenced = FALSE, !.load_time = 0, !.last_access = 0]

\* PageTableEntry::recordAccess
PteRecordAccess(pte, current_time) ==
    [pte EXCEPT !.referenced = TRUE, !.last_access = current_time]

\* VirtualMemory::VirtualMemory for parameters its validation accepts; pages
\* and frames are numbered from 0, the queue's front is its head
VirtualMemory(num_virtual_pages, num_physical_frames, page_size, policy) ==
    [num_virtual_pages |-> num_virtual_pages,
     num_physical_frames |-> num_physical_frames,
     page_size |-> page_size,
     policy |-> policy,
     clock_hand |-> 0,
     global_time |-> 0,
     offset_bits |-> calculateBits(page_size - 1),
     page_number_bits |-> calculateBits(num_virtual_pages - 1),
     page_table |-> [i \in 0..(num_virtual_pages - 1) |-> PageTableEntry],
     frame_allocated |-> [f \in 0..(num_physical_frames - 1) |-> FALSE],
     fifo_queue |-> <<>>,
     stats |-> [page_faults |-> 0, page_hits |-> 0, total_accesses |-> 0]]

\* a parseAddress that keeps page_number_bits bits of the page number
VmParseAddressMasked(v, virtual_addr) ==
    [offset |-> BitAnd(virtual_addr, Pow2(v.offset_bits) - 1),
     page_number |-> BitAnd(ShiftRight(virtual_addr, v.offset_bits),
                            Pow2(v.page_number_bits) - 1)]

\* VirtualMemory::parseAddress
VmParseAddress(v, virtual_addr) ==
    [offset |-> BitAnd(virtual_addr, Pow2(v.offset_bits) - 1),
     page_number |-> ShiftRight(virtual_addr, v.offset_bits)]

\* VirtualMemory::constructPhysicalAddress
constructPhysicalAddress(v, frame_number, offset) ==
    BitOr(ShiftLeft(frame_number, v.offset_bits), offset)

\* VirtualMemory::findFreeFrame: the loop from frame i on
RECURSIVE FindFreeFrameFrom(_, _)
FindFreeFrameFrom(v, i) ==
    IF i >= v.num_physical_frames THEN [success |-> FALSE, value |-> 0]
    ELSE IF ~v.frame_allocated[i] THEN [success |-> TRUE, value |-> i]
    ELSE FindFreeFrameFrom(v, i + 1)

\* a findFreeFrame that returns the highest free frame
findFreeFrameHighest(v) ==
    IF \A f \in DOMAIN v.frame_allocated : v.frame_allocated[f]
    THEN [success |-> FALSE, value |-> 0]
    ELSE [success |-> TRUE,
          value |-> CHOOSE f \in DOMAIN v.frame_allocated :
                        /\ ~v.frame_allocated[f]
                        /\ \A g \in DOMAIN v.frame_allocated :
                               ~v.frame_allocated[g] => g <= f]

\* VirtualMemory::findFreeFrame
findFreeFrame(v) == FindFreeFrameFrom(v, 0)

\* VirtualMemory::loadPageFromDisk: the loop from byte i on
RECURSIVE LoadPageFrom(_, _, _, _, _)
LoadPageFrom(v, m, page_number, frame_number, i) ==
    IF i >= v.page_size THEN m
    ELSE LoadPageFrom(v,
                      MemWrite(m, frame_number * v.page_size + i,
                               (page_number * v.page_size + i) % 256),
                      page_number, frame_number, i + 1)

\* a page load that leaves the bytes of the frame as they are
loadPageKeepingFrame(v, m, page_number, frame_number) == m

loadPageFromDisk(v, m, page_number, frame_number) ==
    LoadPageFrom(v, m, page_number, frame_number, 0)

\* the first valid page from page i on, 0 without one
RECURSIVE FirstValidPage(_, _)
FirstValidPage(v, i) ==
    IF i >= v.num_virtual_pages THEN 0
    ELSE IF v.page_table[i].valid THEN i
    ELSE FirstValidPage(v, i + 1)

\* UINT64_MAX, above every time stamp of a bounded run
Uint64Max == SizeMax

\* an LRU loop that orders the pages by the time of their load
RECURSIVE LruVictimByLoadFrom(_, _, _, _)
LruVictimByLoadFrom(v, i, victim, min_time) ==
    IF i >= v.num_virtual_pages THEN victim
    ELSE IF v.page_table[i].valid /\ v.page_table[i].load_time < min_time
    THEN LruVictimByLoadFrom(v, i + 1, i, v.page_table[i].load_time)
    ELSE LruVictimByLoadFrom(v, i + 1, victim, min_time)

\* selectVictimPage, LRU: the loop from page i on
RECURSIVE LruVictimFrom(_, _, _, _)
LruVictimFrom(v, i, victim, min_time) ==
    IF i >= v.num_virtual_pages THEN victim
    ELSE IF v.page_table[i].valid /\ v.page_table[i].last_access < min_time
    THEN LruVictimFrom(v, i + 1, i, v.page_table[i].last_access)
    ELSE LruVictimFrom(v, i + 1, victim, min_time)

\* a CLOCK scan bounded by one lap of the hand
RECURSIVE ClockScanOneLap(_, _)
ClockScanOneLap(v, scanned) ==
    IF scanned >= v.num_virtual_pages
    THEN [vm |-> v, victim |-> FirstValidPage(v, 0),
          scanned |-> scanned, fallback |-> TRUE]
    ELSE LET pte == v.page_table[v.clock_hand]
             next == (v.clock_hand + 1) % v.num_virtual_pages
         IN  IF pte.valid /\ ~pte.referenced
             THEN [vm |-> [v EXCEPT !.clock_hand = next], victim |-> v.clock_hand,
                   scanned |-> scanned, fallback |-> FALSE]
             ELSE LET v1 == IF pte.valid
                            THEN [v EXCEPT !.page_table[v.clock_hand].referenced = FALSE]
                            ELSE v
                      Rest(v2) == ClockScanOneLap(v2, scanned + 1)
                  IN  Once(Rest, {[v1 EXCEPT !.clock_hand = next]})

\* selectVictimPage, CLOCK: the scan after `scanned' steps; it moves the hand
\* and clears reference bits.  The result also tells the value of `scanned'
\* at the return and whether the return is the one after the loop.
RECURSIVE ClockScan(_, _)
ClockScan(v, scanned) ==
    IF scanned >= v.num_virtual_pages * 2
    THEN [vm |-> v, victim |-> FirstValidPage(v, 0),
          scanned |-> scanned, fallback |-> TRUE]
    ELSE LET pte == v.page_table[v.clock_hand]
             next == (v.clock_hand + 1) % v.num_virtual_pages
         IN  IF pte.valid /\ ~pte.referenced
             THEN [vm |-> [v EXCEPT !.clock_hand = next], victim |-> v.clock_hand,
                   scanned |-> scanned, fallback |-> FALSE]
             ELSE LET v1 == IF pte.valid
                            THEN [v EXCEPT !.page_table[v.clock_hand].referenced = FALSE]
                            ELSE v
                      Rest(v2) == ClockScan(v2, scanned + 1)
                  IN  Once(Rest, {[v1 EXCEPT !.clock_hand = next]})

\* VirtualMemory::selectVictimPage: the victim and the VirtualMemory afterwards
selectVictimPage(v) ==
    CASE v.policy = "FIFO" ->
             [vm |-> v,
              victim |-> IF v.fifo_queue = <<>> THEN FirstValidPage(v, 0)
                         ELSE Head(v.fifo_queue)]
      [] v.policy = "LRU" -> [vm |-> v, victim |-> LruVictimFrom(v, 0, 0, Uint64Max)]
      [] v.policy = "CLOCK" -> ClockScan(v, 0)
      [] OTHER -> [vm |-> v, victim |-> 0]

\* evictPage that leaves the victim's frame allocated
evictPageKeepFrame(v, page_number) ==
    LET pte == v.page_table[page_number]
    IN  IF ~pte.valid THEN v
        ELSE [v EXCEPT !.page_table[page_number] = PteInvalidate(pte),
                       !.fifo_queue = IF v.policy = "FIFO" /\ v.fifo_queue # <<>>
                                      THEN Tail(v.fifo_queue) ELSE @]

\* VirtualMemory::evictPage; writePageToDisk does nothing
evictPage(v, page_number) ==
    LET pte == v.page_table[page_number]
    IN  IF ~pte.valid THEN v
        ELSE [v EXCEPT !.frame_allocated[pte.frame_number] = FALSE,
                       !.page_table[page_number] = PteInvalidate(pte),
                       !.fifo_queue = IF v.policy = "FIFO" /\ v.fifo_queue # <<>>
                                      THEN Tail(v.fifo_queue) ELSE @]

\* handlePageFault whose loaded page starts with its reference bit clear
handlePageFaultUnreferenced(v, m, page_number) ==
    LET free1 == findFreeFrame(v)
        Evict(sel) == evictPage(sel.vm, sel.victim)
        Load(v1) ==
            LET free_frame == IF free1.success THEN free1 ELSE findFreeFrame(v1)
                frame_number == free_frame.value
            IN  IF ~free_frame.success
                THEN [vm |-> v1, memory |-> m, success |-> FALSE, value |-> 0]
                ELSE [vm |-> [v1 EXCEPT
                                !.frame_allocated[frame_number] = TRUE,
                                !.page_table[page_number] =
                                    [valid |-> TRUE, frame_number |-> frame_number,
                                     dirty |-> FALSE, referenced |-> FALSE,
                                     load_time |-> v1.global_time,
                                     last_access |-> v1.global_time],
                                !.fifo_queue = IF v1.policy = "FIFO"
                                               THEN Append(@, page_number) ELSE @],
                      memory |-> loadPageFromDisk(v1, m, page_number, frame_number),
                      success |-> TRUE, value |-> frame_number]
    IN  Once(Load, {IF free1.success THEN v
                    ELSE Once(Evict, {selectVictimPage(v)})})

\* Result<Address> VirtualMemory::handlePageFault(page_number)
handlePageFault(v, m, page_number) ==
    LET free1 == findFreeFrame(v)
        Evict(sel) == evictPage(sel.vm, sel.victim)
        Load(v1) ==
            LET free_frame == IF free1.success THEN free1 ELSE findFreeFrame(v1)
                frame_number == free_frame.value
            IN  IF ~free_frame.success
                THEN [vm |-> v1, memory |-> m, success |-> FALSE, value |-> 0]
                ELSE [vm |-> [v1 EXCEPT
                                !.frame_allocated[frame_number] = TRUE,
                                !.page_table[page_number] =
                                    [valid |-> TRUE, frame_number |-> frame_number,
                                     dirty |-> FALSE, referenced |-> TRUE,
                                     load_time |-> v1.global_time,
                                     last_access |-> v1.global_time],
                                !.fifo_queue = IF v1.policy = "FIFO"
                                               THEN Append(@, page_number) ELSE @],
                      memory |-> loadPageFromDisk(v1, m, page_number, frame_number),
                      success |-> TRUE, value |-> frame_number]
    IN  Once(Load, {IF free1.success THEN v
                    ELSE Once(Evict, {selectVictimPage(v)})})

\* Result<Address> VirtualMemory::translate(virtual_addr): the access is
\* counted and the time advanced before the page number is checked
VmTranslateCall(v, m, virtual_addr) ==
    LET v0 == [v EXCEPT !.stats.total_accesses = @ + 1, !.global_time = @ + 1]
        a == VmParseAddress(v0, virtual_addr)
    IN  IF a.page_number >= v0.num_virtual_pages
        THEN [vm |-> v0, memory |-> m, success |-> FALSE, value |-> 0]
        ELSE IF v0.page_table[a.page_number].valid
        THEN LET pte == v0.page_table[a.page_number]
             IN  [vm |-> [v0 EXCEPT !.stats.page_hits = @ + 1,
                                    !.page_table[a.page_number] =
                                        PteRecordAccess(pte, v0.global_time)],
                  memory |-> m, success |-> TRUE,
                  value |-> constructPhysicalAddress(v0, pte.frame_number, a.offset)]
        ELSE LET v1 == [v0 EXCEPT !.stats.page_faults = @ + 1]
                 Fault(f) ==
                     IF ~f.success
                     THEN [vm |-> f.vm, memory |-> f.memory,
                           success |-> FALSE, value |-> 0]
                     ELSE [vm |-> f.vm, memory |-> f.memory, success |-> TRUE,
                           value |-> constructPhysicalAddress(f.vm, f.value, a.offset)]
             IN  Once(Fault, {handlePageFault(v1, m, a.page_number)})

\* Result<uint8_t> VirtualMemory::read(virtual_addr)
VmReadCall(v, m, virtual_addr) ==
    LET Access(t) ==
            IF ~t.success THEN t
            ELSE [vm |-> t.vm, memory |-> t.memory,
                  success |-> MemReadOk(t.memory, t.value),
                  value |-> MemRead(t.memory, t.value)]
    IN  Once(Access, {VmTranslateCall(v, m, virtual_addr)})

\* a write that stores the byte at the virtual address, untranslated
VmWriteUntranslatedCall(v, m, virtual_addr, data) ==
    LET a == VmParseAddress(v, virtual_addr)
        Access(t) ==
            IF ~t.success THEN t
            ELSE [vm |-> [t.vm EXCEPT !.page_table[a.page_number].dirty = TRUE],
                  memory |-> MemWrite(t.memory, virtual_addr, data),
                  success |-> MemWriteOk(t.memory, virtual_addr),
                  value |-> 0]
    IN  Once(Access, {VmTranslateCall(v, m, virtual_addr)})

\* Result<void> VirtualMemory::write(virtual_addr, data)
VmWriteCall(v, m, virtual_addr, data) ==
    LET a == VmParseAddress(v, virtual_addr)
        Access(t) ==
            IF ~t.success THEN t
            ELSE [vm |-> [t.vm EXCEPT !.page_table[a.page_number].dirty = TRUE],
                  memory |-> MemWrite(t.memory, t.value, data),
                  success |-> MemWriteOk(t.memory, t.value),
                  value |-> 0]
    IN  Once(Access, {VmTranslateCall(v, m, virtual_addr)})

\* a flush that leaves the FIFO queue as it is
VmFlushKeepQueueCall(v) ==
    [v EXCEPT !.page_table = [i \in DOMAIN v.page_table |->
                                 PteInvalidate(v.page_table[i])],
              !.frame_allocated = [f \in DOMAIN v.frame_allocated |-> FALSE],
              !.clock_hand = 0]

\* VirtualMemory::flush
VmFlushCall(v) ==
    [v EXCEPT !.page_table = [i \in DOMAIN v.page_table |->
                                 PteInvalidate(v.page_table[i])],
              !.frame_allocated = [f \in DOMAIN v.frame_allocated |-> FALSE],
              !.fifo_queue = <<>>,
              !.clock_hand = 0]

(***************************************************************************)
(* One allocator used alone over a PhysicalMemory: a StandardAllocator     *)
(* with one of the three strategies, or a BuddyAllocator.                  *)
(***************************************************************************)
Sizes == 0..MaxReq
BlockIds == 0..MaxAllocs
BuddyTotal == Pow2(BuddyOrder)
MinBlockSizes == {1, 2}

StdAllocate(size) ==
    /\ std # Idle
    /\ std.total_allocations < MaxAllocs
    /\ LET r == StdAllocateCall(std, memory, size)
       IN  /\ std' = r.std
           /\ memory' = r.memory
           /\ last' = Call("allocate", size, 0, r.success, r.value)
    /\ pre' = Snapshot
    /\ UNCHANGED <<buddy, l1, l2, hier, vm, calls, mgr>>

StdDeallocate(block_id) ==
    /\ std # Idle
    /\ LET r == StdDeallocateCall(std, memory, block_id)
       IN  /\ std' = r.std
           /\ memory' = r.memory
           /\ last' = Call("deallocate", block_id, 0, r.success, r.value)
    /\ pre' = Snapshot
    /\ UNCHANGED <<buddy, l1, l2, hier, vm, calls, mgr>>

StdDeallocateByAddress(address) ==
    /\ std # Idle
    /\ LET r == StdDeallocateByAddressCall(std, memory, address)
       IN  /\ std' = r.std
           /\ memory' = r.memory
           /\ last' = Call("deallocate_by_addr", address, 0, r.success, r.value)
    /\ pre' = Snapshot
    /\ UNCHANGED <<buddy, l1, l2, hier, vm, calls, mgr>>

\* the op of a call to allocate that never returns; the program takes no
\* further step after it
NoReturn == "allocate (no return)"

\* the request sizes of BuddyAllocator::allocate: the small sizes and the
\* largest size_t
BuddySizes == Sizes \cup {SizeMax}

BuddyAllocate(size) ==
    /\ buddy # Idle
    /\ last.op # NoReturn
    /\ buddy.total_allocations < MaxAllocs
    /\ LET r == BuddyAllocateCall(buddy, memory, size)
       IN  /\ buddy' = r.buddy
           /\ memory' = r.memory
           /\ last' = Call(IF r.returns THEN "allocate" ELSE NoReturn,
                           size, 0, r.success, r.value)
    /\ pre' = Snapshot
    /\ UNCHANGED <<std, l1, l2, hier, vm, calls, mgr>>

BuddyDeallocate(block_id) ==
    /\ buddy # Idle
    /\ last.op # NoReturn
    /\ buddy.total_deallocations < MaxDeallocs
    /\ LET r == BuddyDeallocateCall(buddy, memory, block_id)
       IN  /\ buddy' = r.buddy
           /\ memory' = r.memory
           /\ last' = Call("deallocate", block_id, 0, r.success, r.value)
    /\ pre' = Snapshot
    /\ UNCHANGED <<std, l1, l2, hier, vm, calls, mgr>>

BuddyDeallocateByAddress(address) ==
    /\ buddy # Idle
    /\ last.op # NoReturn
    /\ buddy.total_deallocations < MaxDeallocs
    /\ LET r == BuddyDeallocateByAddressCall(buddy, memory, address)
       IN  /\ buddy' = r.buddy
           /\ memory' = r.memory
           /\ last' = Call("deallocate_by_addr", address, 0, r.success, r.value)
    /\ pre' = Snapshot
    /\ UNCHANGED <<std, l1, l2, hier, vm, calls, mgr>>

InitAlloc ==
    /\ \/ /\ memory = PhysicalMemory(StdTotal)
          /\ \E type \in AllocatorTypes : std = StandardAllocator(memory, type)
          /\ buddy = Idle
       \/ /\ memory = PhysicalMemory(BuddyTotal)
          /\ \E min_block_size \in MinBlockSizes :
                 buddy = BuddyAllocator(memory, min_block_size)
          /\ std = Idle
    /\ l1 = Idle /\ l2 = Idle /\ hier = Idle /\ vm = Idle
    /\ last = Call("init", 0, 0, TRUE, 0)
    /\ pre = Idle
    /\ mgr = Idle
    /\ calls = 0

NextAlloc ==
    \/ \E size \in Sizes : StdAllocate(size)
    \/ \E block_id \in BlockIds : StdDeallocate(block_id)
    \/ \E address \in 0..MaxAddr : StdDeallocateByAddress(address)
    \/ \E size \in BuddySizes : BuddyAllocate(size)
    \/ \E block_id \in BlockIds : BuddyDeallocate(block_id)
    \/ \E address \in 0..MaxAddr : BuddyDeallocateByAddress(address)

SpecAlloc == InitAlloc /\ [][NextAlloc]_vars

(***************************************************************************)
(* The construction of a BuddyAllocator over memories of every size, with  *)
(* every minimum block size, and the calls on the allocators it yields.    *)
(***************************************************************************)
\* the sizes of the memory and the minimum block sizes given to the constructor
TotalSizes == 1..BuddyTotal
MinSizeArgs == 0..(2 * BuddyTotal)

InitBuddyNew ==
    /\ \E total_size \in TotalSizes, min_block_size \in MinSizeArgs :
           /\ memory = PhysicalMemory(total_size)
           /\ \E r \in {BuddyAllocatorNew(memory, min_block_size)} :
                  /\ buddy = r.buddy
                  /\ last = Call("new", total_size, min_block_size, r.success, 0)
    /\ std = Idle /\ l1 = Idle /\ l2 = Idle /\ hier = Idle /\ vm = Idle
    /\ pre = Idle
    /\ mgr = Idle
    /\ calls = 0

NextBuddyNew ==
    \/ \E size \in BuddySizes : BuddyAllocate(size)
    \/ \E block_id \in BlockIds : BuddyDeallocate(block_id)
    \/ \E address \in 0..MaxAddr : BuddyDeallocateByAddress(address)

SpecBuddyNew == InitBuddyNew /\ [][NextBuddyNew]_vars

(***************************************************************************)
(* One CacheLevel used alone over a PhysicalMemory (the variable l1).      *)
(***************************************************************************)
\* the addresses of the memory and the first one outside it
CacheAddresses == 0..CacheMemSize
\* the bytes written
WriteValues == {1}

\* a two-way set and a direct-mapped cache of two sets, blocks of two bytes
CacheConfigs ==
    {[num_sets |-> 1, associativity |-> 2, block_size |-> 2, policy |-> p] :
        p \in CachePolicies}
    \cup {[num_sets |-> 2, associativity |-> 1, block_size |-> 2, policy |-> "FIFO"]}

CacheRead(address) ==
    /\ calls < MaxCalls
    /\ LET r == CacheReadCall(l1, memory, address)
       IN  /\ l1' = r.cache
           /\ memory' = r.memory
           /\ last' = Call("read", address, 0, r.success, r.value)
    /\ pre' = Snapshot
    /\ calls' = calls + 1
    /\ UNCHANGED <<std, buddy, l2, hier, vm, mgr>>

CacheWrite(address, data) ==
    /\ calls < MaxCalls
    /\ LET r == CacheWriteCall(l1, memory, address, data)
       IN  /\ l1' = r.cache
           /\ memory' = r.memory
           /\ last' = Call("write", address, data, r.success, r.value)
    /\ pre' = Snapshot
    /\ calls' = calls + 1
    /\ UNCHANGED <<std, buddy, l2, hier, vm, mgr>>

CacheContains(address) ==
    /\ calls < MaxCalls
    /\ last' = Call("contains", address, 0, TRUE,
                    IF contains(l1, address) THEN 1 ELSE 0)
    /\ pre' = Snapshot
    /\ calls' = calls + 1
    /\ UNCHANGED <<memory, std, buddy, l1, l2, hier, vm, mgr>>

CacheFlush ==
    /\ calls < MaxCalls
    /\ l1' = CacheFlushCall(l1)
    /\ last' = Call("flush", 0, 0, TRUE, 0)
    /\ pre' = Snapshot
    /\ calls' = calls + 1
    /\ UNCHANGED <<memory, std, buddy, l2, hier, vm, mgr>>

InitCache ==
    /\ memory = PhysicalMemory(CacheMemSize)
    /\ \E cfg \in CacheConfigs :
           l1 = CacheLevel(1, cfg.num_sets, cfg.associativity, cfg.block_size, cfg.policy)
    /\ std = Idle /\ buddy = Idle /\ l2 = Idle /\ hier = Idle /\ vm = Idle
    /\ last = Call("init", 0, 0, TRUE, 0)
    /\ pre = Idle
    /\ mgr = Idle
    /\ calls = 0

NextCache ==
    \/ \E address \in CacheAddresses : CacheRead(address)
    \/ \E address \in CacheAddresses, data \in WriteValues : CacheWrite(address, data)
    \/ \E address \in CacheAddresses : CacheContains(address)
    \/ CacheFlush

SpecCache == InitCache /\ [][NextCache]_vars

(***************************************************************************)
(* One CacheLevel of a single two-way set with blocks of one byte, so that *)
(* more blocks of the memory than ways fall into the set.                  *)
(***************************************************************************)
WaysConfigs ==
    {[num_sets |-> 1, associativity |-> 2, block_size |-> 1, policy |-> p] :
        p \in {"FIFO", "LRU"}}

InitWays ==
    /\ memory = PhysicalMemory(CacheMemSize)
    /\ \E cfg \in WaysConfigs :
           l1 = CacheLevel(1, cfg.num_sets, cfg.associativity, cfg.block_size, cfg.policy)
    /\ std = Idle /\ buddy = Idle /\ l2 = Idle /\ hier = Idle /\ vm = Idle
    /\ last = Call("init", 0, 0, TRUE, 0)
    /\ pre = Idle
    /\ mgr = Idle
    /\ calls = 0

NextWays ==
    \/ \E address \in CacheAddresses : CacheRead(address)
    \/ \E address \in CacheAddresses, data \in WriteValues : CacheWrite(address, data)
    \/ \E address \in CacheAddresses : CacheContains(address)
    \/ CacheFlush

SpecWays == InitWays /\ [][NextWays]_vars

(***************************************************************************)
(* A CacheHierarchy over a PhysicalMemory: L1 is l1, L2 is l2.             *)
(***************************************************************************)
\* a one-line L1 over a two-way L2, blocks of two bytes; and an L1 of two
\* one-byte lines over a one-line L2 of two-byte blocks
HierConfigs ==
    {[l1 |-> [num_sets |-> 1, associativity |-> 1, block_size |-> 2, policy |-> "FIFO"],
      l2 |-> [num_sets |-> 1, associativity |-> 2, block_size |-> 2, policy |-> p]] :
        p \in CachePolicies}
    \cup {[l1 |-> [num_sets |-> 2, associativity |-> 1, block_size |-> 1, policy |-> "LRU"],
           l2 |-> [num_sets |-> 1, associativity |-> 1, block_size |-> 2, policy |-> "LFU"]]}

HierRead(address) ==
    /\ calls < MaxCalls
    /\ LET r == HierReadCall(hier, l1, l2, memory, address)
       IN  /\ hier' = r.hier
           /\ l1' = r.l1
           /\ l2' = r.l2
           /\ memory' = r.memory
           /\ last' = Call("read", address, 0, r.success, r.value)
    /\ pre' = Snapshot
    /\ calls' = calls + 1
    /\ UNCHANGED <<std, buddy, vm, mgr>>

HierWrite(address, data) ==
    /\ calls < MaxCalls
    /\ LET r == HierWriteCall(hier, l1, l2, memory, address, data)
       IN  /\ hier' = r.hier
           /\ l1' = r.l1
           /\ l2' = r.l2
           /\ memory' = r.memory
           /\ last' = Call("write", address, data, r.success, r.value)
    /\ pre' = Snapshot
    /\ calls' = calls + 1
    /\ UNCHANGED <<std, buddy, vm, mgr>>

\* CacheHierarchy::flush
HierFlush ==
    /\ calls < MaxCalls
    /\ l1' = CacheFlushCall(l1)
    /\ l2' = CacheFlushCall(l2)
    /\ last' = Call("flush", 0, 0, TRUE, 0)
    /\ pre' = Snapshot
    /\ calls' = calls + 1
    /\ UNCHANGED <<memory, std, buddy, hier, vm, mgr>>

InitHier ==
    /\ memory = PhysicalMemory(CacheMemSize)
    /\ \E cfg \in HierConfigs :
           /\ l1 = CacheLevel(1, cfg.l1.num_sets, cfg.l1.associativity,
                              cfg.l1.block_size, cfg.l1.policy)
           /\ l2 = CacheLevel(2, cfg.l2.num_sets, cfg.l2.associativity,
                              cfg.l2.block_size, cfg.l2.policy)
    /\ hier = CacheHierarchy
    /\ std = Idle /\ buddy = Idle /\ vm = Idle
    /\ last = Call("init", 0, 0, TRUE, 0)
    /\ pre = Idle
    /\ mgr = Idle
    /\ calls = 0

NextHier ==
    \/ \E address \in CacheAddresses : HierRead(address)
    \/ \E address \in CacheAddresses, data \in WriteValues : HierWrite(address, data)
    \/ HierFlush

SpecHier == InitHier /\ [][NextHier]_vars

(***************************************************************************)
(* A VirtualMemory over a PhysicalMemory of exactly its frames.            *)
(***************************************************************************)
\* four pages over three frames, pages of two bytes, under each policy
VmConfigs ==
    {[num_virtual_pages |-> 4, num_physical_frames |-> 3, page_size |-> 2,
      policy |-> p] : p \in PageReplacementPolicies}

\* the addresses read: the start of every page and of the page past the last,
\* and the second byte of page 0
VmReadAddresses == {p * vm.page_size : p \in 0..vm.num_virtual_pages} \cup {1}
\* the addresses written: inside page 1, the start of the last page and past
\* the last page
VmWriteAddresses ==
    {vm.page_size + 1, (vm.num_virtual_pages - 1) * vm.page_size,
     vm.num_virtual_pages * vm.page_size}
\* the addresses translated: inside page 2 and past the last page
VmTranslateAddresses == {2 * vm.page_size + 1, vm.num_virtual_pages * vm.page_size + 1}
\* the bytes written, none of them a byte of the disk pattern
VmWriteValues == {255}

VmTranslate(virtual_addr) ==
    /\ calls < MaxVmCalls
    /\ \E r \in {VmTranslateCall(vm, memory, virtual_addr)} :
           /\ vm' = r.vm
           /\ memory' = r.memory
           /\ last' = Call("translate", virtual_addr, 0, r.success, r.value)
    /\ pre' = Snapshot
    /\ calls' = calls + 1
    /\ UNCHANGED <<std, buddy, l1, l2, hier, mgr>>

VmRead(virtual_addr) ==
    /\ calls < MaxVmCalls
    /\ \E r \in {VmReadCall(vm, memory, virtual_addr)} :
           /\ vm' = r.vm
           /\ memory' = r.memory
           /\ last' = Call("read", virtual_addr, 0, r.success, r.value)
    /\ pre' = Snapshot
    /\ calls' = calls + 1
    /\ UNCHANGED <<std, buddy, l1, l2, hier, mgr>>

VmWrite(virtual_addr, data) ==
    /\ calls < MaxVmCalls
    /\ \E r \in {VmWriteCall(vm, memory, virtual_addr, data)} :
           /\ vm' = r.vm
           /\ memory' = r.memory
           /\ last' = Call("write", virtual_addr, data, r.success, r.value)
    /\ pre' = Snapshot
    /\ calls' = calls + 1
    /\ UNCHANGED <<std, buddy, l1, l2, hier, mgr>>

VmFlush ==
    /\ calls < MaxVmCalls
    /\ vm' = VmFlushCall(vm)
    /\ last' = Call("flush", 0, 0, TRUE, 0)
    /\ pre' = Snapshot
    /\ calls' = calls + 1
    /\ UNCHANGED <<memory, std, buddy, l1, l2, hier, mgr>>

InitVM ==
    /\ \E cfg \in VmConfigs :
           /\ memory = PhysicalMemory(cfg.num_physical_frames * cfg.page_size)
           /\ vm = VirtualMemory(cfg.num_virtual_pages, cfg.num_physical_frames,
                                 cfg.page_size, cfg.policy)
    /\ std = Idle /\ buddy = Idle /\ l1 = Idle /\ l2 = Idle /\ hier = Idle
    /\ last = Call("init", 0, 0, TRUE, 0)
    /\ pre = Idle
    /\ mgr = Idle
    /\ calls = 0

NextVM ==
    \/ \E virtual_addr \in VmTranslateAddresses : VmTranslate(virtual_addr)
    \/ \E virtual_addr \in VmReadAddresses : VmRead(virtual_addr)
    \/ \E virtual_addr \in VmWriteAddresses, data \in VmWriteValues :
           VmWrite(virtual_addr, data)
    \/ VmFlush

SpecVM == InitVM /\ [][NextVM]_vars

(***************************************************************************)
(* A VirtualMemory and a CacheHierarchy over one PhysicalMemory.           *)
(***************************************************************************)
\* two pages of two bytes over one frame under each policy, a one-line L1 over
\* a two-way L2 with blocks of two bytes, a memory of two blocks
SysConfigs ==
    {[total_size |-> 4,
      vm |-> [num_virtual_pages |-> 2, num_physical_frames |-> 1, page_size |-> 2,
              policy |-> p],
      l1 |-> [num_sets |-> 1, associativity |-> 1, block_size |-> 2, policy |-> "FIFO"],
      l2 |-> [num_sets |-> 1, associativity |-> 2, block_size |-> 2, policy |-> "LRU"]] :
        p \in PageReplacementPolicies}

\* virtual addresses: the start of page 0, the second byte of page 1 and the
\* start of the page past the last
SysVirtualAddresses ==
    {0, vm.page_size + 1, vm.num_virtual_pages * vm.page_size}
\* physical addresses: the two bytes of frame 0, the first byte after the frames
\* and the first address outside the memory
SysPhysicalAddresses ==
    {0, 1, vm.num_physical_frames * vm.page_size, memory.total_size}

SysVmTranslate(virtual_addr) ==
    /\ calls < MaxSysCalls
    /\ \E r \in {VmTranslateCall(vm, memory, virtual_addr)} :
           /\ vm' = r.vm
           /\ memory' = r.memory
           /\ last' = Call("vm.translate", virtual_addr, 0, r.success, r.value)
    /\ pre' = Snapshot
    /\ calls' = calls + 1
    /\ UNCHANGED <<std, buddy, l1, l2, hier, mgr>>

SysVmRead(virtual_addr) ==
    /\ calls < MaxSysCalls
    /\ \E r \in {VmReadCall(vm, memory, virtual_addr)} :
           /\ vm' = r.vm
           /\ memory' = r.memory
           /\ last' = Call("vm.read", virtual_addr, 0, r.success, r.value)
    /\ pre' = Snapshot
    /\ calls' = calls + 1
    /\ UNCHANGED <<std, buddy, l1, l2, hier, mgr>>

SysVmWrite(virtual_addr, data) ==
    /\ calls < MaxSysCalls
    /\ \E r \in {VmWriteCall(vm, memory, virtual_addr, data)} :
           /\ vm' = r.vm
           /\ memory' = r.memory
           /\ last' = Call("vm.write", virtual_addr, data, r.success, r.value)
    /\ pre' = Snapshot
    /\ calls' = calls + 1
    /\ UNCHANGED <<std, buddy, l1, l2, hier, mgr>>

SysVmFlush ==
    /\ calls < MaxSysCalls
    /\ vm' = VmFlushCall(vm)
    /\ last' = Call("vm.flush", 0, 0, TRUE, 0)
    /\ pre' = Snapshot
    /\ calls' = calls + 1
    /\ UNCHANGED <<memory, std, buddy, l1, l2, hier, mgr>>

SysCacheRead(address) ==
    /\ calls < MaxSysCalls
    /\ \E r \in {HierReadCall(hier, l1, l2, memory, address)} :
           /\ hier' = r.hier
           /\ l1' = r.l1
           /\ l2' = r.l2
           /\ memory' = r.memory
           /\ last' = Call("cache.read", address, 0, r.success, r.value)
    /\ pre' = Snapshot
    /\ calls' = calls + 1
    /\ UNCHANGED <<std, buddy, vm, mgr>>

SysCacheWrite(address, data) ==
    /\ calls < MaxSysCalls
    /\ \E r \in {HierWriteCall(hier, l1, l2, memory, address, data)} :
           /\ hier' = r.hier
           /\ l1' = r.l1
           /\ l2' = r.l2
           /\ memory' = r.memory
           /\ last' = Call("cache.write", address, data, r.success, r.value)
    /\ pre' = Snapshot
    /\ calls' = calls + 1
    /\ UNCHANGED <<std, buddy, vm, mgr>>

SysCacheFlush ==
    /\ calls < MaxSysCalls
    /\ l1' = CacheFlushCall(l1)
    /\ l2' = CacheFlushCall(l2)
    /\ last' = Call("cache.flush", 0, 0, TRUE, 0)
    /\ pre' = Snapshot
    /\ calls' = calls + 1
    /\ UNCHANGED <<memory, std, buddy, hier, vm, mgr>>

InitSys ==
    /\ \E cfg \in SysConfigs :
           /\ memory = PhysicalMemory(cfg.total_size)
           /\ vm = VirtualMemory(cfg.vm.num_virtual_pages, cfg.vm.num_physical_frames,
                                 cfg.vm.page_size, cfg.vm.policy)
           /\ l1 = CacheLevel(1, cfg.l1.num_sets, cfg.l1.associativity,
                              cfg.l1.block_size, cfg.l1.policy)
           /\ l2 = CacheLevel(2, cfg.l2.num_sets, cfg.l2.associativity,
                              cfg.l2.block_size, cfg.l2.policy)
    /\ hier = CacheHierarchy
    /\ std = Idle /\ buddy = Idle
    /\ last = Call("init", 0, 0, TRUE, 0)
    /\ pre = Idle
    /\ mgr = Idle
    /\ calls = 0

NextSys ==
    \/ \E virtual_addr \in SysVirtualAddresses : SysVmTranslate(virtual_addr)
    \/ \E virtual_addr \in SysVirtualAddresses : SysVmRead(virtual_addr)
    \/ \E virtual_addr \in SysVirtualAddresses, data \in VmWriteValues :
           SysVmWrite(virtual_addr, data)
    \/ SysVmFlush
    \/ \E address \in SysPhysicalAddresses : SysCacheRead(address)
    \/ \E address \in SysPhysicalAddresses, data \in WriteValues :
           SysCacheWrite(address, data)
    \/ SysCacheFlush

SpecSys == InitSys /\ [][NextSys]_vars

(***************************************************************************)
(* Properties of the allocators, checked under SpecAlloc.                  *)
(***************************************************************************)
RECURSIVE SumOver(_, _)
SumOver(S, f) ==
    IF S = {} THEN 0
    ELSE LET x == CHOOSE y \in S : TRUE IN f[x] + SumOver(S \ {x}, f)

\* C1: the block list of a StandardAllocator is sorted by start address, starts
\* at 0, each block starts where its predecessor ends, the sizes sum to
\* total_size, and no two adjacent blocks are both free.
StdBlockListInvariant ==
    std # Idle =>
        LET h == std.head
        IN  /\ Len(h) >= 1
            /\ h[1].start_address = 0
            /\ \A i \in 1..(Len(h) - 1) :
                   /\ h[i].start_address < h[i + 1].start_address
                   /\ h[i + 1].start_address = h[i].start_address + h[i].size
                   /\ ~(h[i].is_free /\ h[i + 1].is_free)
            /\ SumOver(1..Len(h), [i \in 1..Len(h) |-> h[i].size]) = memory.total_size

\* a deallocate that merged the freed block with both of its neighbours
StdMergedThreeBlocks ==
    /\ std # Idle
    /\ last.op \in {"deallocate", "deallocate_by_addr"}
    /\ last.success
    /\ Len(std.head) = Len(pre.std.head) - 2

\* the sizes of the live allocations of the allocator in use
LiveSizes ==
    IF std # Idle
    THEN [id \in DOMAIN std.allocated_blocks |-> std.head[BlockAt(std.head, id)].size]
    ELSE [id \in DOMAIN buddy.allocated_blocks |-> buddy.allocated_blocks[id].size]

\* C2: after every allocate or deallocate, used_size is the sum of the sizes of
\* the live allocations, and 0 <= used_size <= total_size.
UsedSizeInvariant ==
    /\ memory.used_size = SumOver(DOMAIN LiveSizes, LiveSizes)
    /\ 0 <= memory.used_size
    /\ memory.used_size <= memory.total_size

\* a deallocate that lowered used_size and left another allocation live
UsedSizeLowered ==
    /\ last.op = "deallocate"
    /\ last.success
    /\ memory.used_size > 0
    /\ memory.used_size < pre.memory.used_size

\* every block of a BuddyAllocator, free or allocated
BuddyBlocks ==
    {buddy.free_lists[sz][i] :
        <<sz, i>> \in {p \in (DOMAIN buddy.free_lists) \X (1..BuddyTotal) :
                          p[2] <= Len(buddy.free_lists[p[1]])}}
    \cup {buddy.allocated_blocks[id] : id \in DOMAIN buddy.allocated_blocks}

BuddyFreeBlocks == {b \in BuddyBlocks : b.is_free}

\* C3: every block of a BuddyAllocator starts at a multiple of its size, and no
\* two free blocks of one size s < total_size sit at a and a XOR s.
BuddyInvariant ==
    buddy # Idle =>
        /\ \A b \in BuddyBlocks : b.start_address % b.size = 0
        /\ \A b, c \in BuddyFreeBlocks :
               (b.size = c.size /\ b.size < memory.total_size)
                   => c.start_address # BitXor(b.start_address, b.size)

\* a deallocate that merged buddies while another allocation stayed live
BuddyMergedPair ==
    /\ buddy # Idle
    /\ last.op = "deallocate"
    /\ last.success
    /\ DOMAIN buddy.allocated_blocks # {}
    /\ buddy.free_lists[1] = <<>>
    /\ pre.buddy.free_lists[1] # <<>>

(***************************************************************************)
(* Properties of one CacheLevel, checked under SpecCache.                  *)
(***************************************************************************)
\* C4: after any sequence of read, write, contains and flush calls on a
\* CacheLevel, with addresses outside the memory among them,
\* hits + misses = accesses.
CacheCountersBalance ==
    l1.stats.hits + l1.stats.misses = l1.stats.accesses

\* the line of the cache that holds the address, when one does
LineOf(c, address) ==
    LET p == parseAddress(c, address)
    IN  c.sets[p.set_index][findLine(c, p.set_index, p.tag)]

\* the bytes of the memory block of the address, 0 where the block leaves the
\* memory
MemoryBlockOf(c, m, address) ==
    LET base == address - parseAddress(c, address).offset
    IN  [i \in 0..(c.block_size - 1) |->
            IF base + i < m.total_size THEN m.data[base + i] ELSE 0]

\* the last call was a write to an address that no valid line of its set tagged
WriteMissed ==
    /\ last.op = "write"
    /\ ~contains(pre.l1, last.arg)

\* C8 as claimed: a write that finds no valid line with the address's tag stores
\* the byte in the memory and changes no cache line, so that contains(addr) is
\* still false.
WriteMissAllocatesNothing ==
    (WriteMissed /\ last.success) =>
        /\ memory.data[last.arg] = last.data
        /\ l1.sets = pre.l1.sets
        /\ ~contains(l1, last.arg)

\* C8 as amended: a write to an address of the memory that finds no valid line
\* with the address's tag stores the byte in the memory, counts a miss and
\* loads the block into one way of the set, which then holds the memory's
\* bytes of the block, the new byte among them; every other line is unchanged
\* and contains(addr) is true.  A write outside the memory fails and changes no
\* line and no byte.
WriteMissAllocates ==
    WriteMissed =>
        IF last.arg < memory.total_size
        THEN LET p == parseAddress(l1, last.arg)
             IN  /\ last.success
                 /\ memory.data[last.arg] = last.data
                 /\ contains(l1, last.arg)
                 /\ LineOf(l1, last.arg).data = MemoryBlockOf(l1, memory, last.arg)
                 /\ LineOf(l1, last.arg).data[p.offset] = last.data
                 /\ l1.stats.misses = pre.l1.stats.misses + 1
                 /\ \A set_index \in DOMAIN l1.sets :
                        \A way \in DOMAIN l1.sets[set_index] :
                            \/ l1.sets[set_index][way] = pre.l1.sets[set_index][way]
                            \/ /\ set_index = p.set_index
                               /\ way = findLine(l1, p.set_index, p.tag)
        ELSE /\ ~last.success
             /\ l1.sets = pre.l1.sets
             /\ memory = pre.memory

\* a write miss that replaced a valid line of its set
WriteMissEvicted ==
    /\ WriteMissed
    /\ last.success
    /\ contains(l1, last.arg)
    /\ \A way \in DOMAIN pre.l1.sets[parseAddress(l1, last.arg).set_index] :
           pre.l1.sets[parseAddress(l1, last.arg).set_index][way].valid

(***************************************************************************)
(* Properties of the CacheHierarchy, checked under SpecHier.               *)
(***************************************************************************)
\* C7: once hierarchy.write(a, v) succeeds, which it does for every address of
\* the memory, memory.read(a) = v; flush changes no byte of the memory, so the
\* byte is still there after it.
WriteThrough ==
    /\ (last.op = "write" /\ last.arg < memory.total_size) =>
           (last.success /\ memory.data[last.arg] = last.data)
    /\ (last.op = "write" /\ last.success) => memory.data[last.arg] = last.data
    /\ last.op = "flush" => memory.data = pre.memory.data

\* a flush of a hierarchy that held a written byte in L1
FlushedAfterWrite ==
    /\ last.op = "flush"
    /\ \E a \in DOMAIN memory.data :
           /\ memory.data[a] \in WriteValues
           /\ contains(pre.l1, a)
           /\ ~contains(l1, a)

\* neither level held the address of the last call when the call started
MissedBothLevels ==
    /\ ~contains(pre.l1, last.arg)
    /\ ~contains(pre.l2, last.arg)

\* C9: hierarchy.write(a, v) on an address that neither level contains leaves
\* every line and the counters of both levels unchanged while memory.read(a)
\* becomes v; a hierarchy.read(a) from such a state raises L1's misses by
\* exactly one and returns the byte of the memory, v.
WriteMissThenReadMiss ==
    /\ (last.op = "write" /\ MissedBothLevels) =>
           /\ l1 = pre.l1
           /\ l2 = pre.l2
           /\ ~contains(l1, last.arg) /\ ~contains(l2, last.arg)
           /\ last.arg < memory.total_size =>
                  (last.success /\ memory.data[last.arg] = last.data)
    /\ (last.op = "read" /\ MissedBothLevels /\ last.arg < memory.total_size) =>
           /\ last.success
           /\ last.value = pre.memory.data[last.arg]
           /\ l1.stats.misses = pre.l1.stats.misses + 1

\* a read that missed both levels and returned a byte that a write had stored
ReadMissReturnedWrittenByte ==
    /\ last.op = "read"
    /\ MissedBothLevels
    /\ last.success
    /\ last.value \in WriteValues
    /\ l1.stats.accesses = 1

(***************************************************************************)
(* Properties of a VirtualMemory, checked under SpecVM.                    *)
(***************************************************************************)
\* C5: under any replacement policy, after any sequence of translate, read,
\* write and flush calls, with virtual pages >= num_virtual_pages among them,
\* page_faults + page_hits = total_accesses.
VmCountersBalance ==
    vm.stats.page_faults + vm.stats.page_hits = vm.stats.total_accesses

\* the pages of a VirtualMemory that are in a frame
ValidPages(v) == {p \in DOMAIN v.page_table : v.page_table[p].valid}

\* C6: in every reachable state under FIFO, LRU and CLOCK, at most
\* num_physical_frames page-table entries are valid, two valid entries never
\* have the same frame number, and a frame is marked allocated exactly when
\* some valid entry has its number.
VmFrameInvariant ==
    /\ Cardinality(ValidPages(vm)) <= vm.num_physical_frames
    /\ \A p, q \in ValidPages(vm) :
           p # q => vm.page_table[p].frame_number # vm.page_table[q].frame_number
    /\ \A f \in DOMAIN vm.frame_allocated :
           vm.frame_allocated[f] <=>
               \E p \in ValidPages(vm) : vm.page_table[p].frame_number = f

\* a page fault with every frame taken has put a page out and another one in
VmEvictedPage ==
    /\ last.op \in {"translate", "read", "write"}
    /\ last.success
    /\ Cardinality(ValidPages(pre.vm)) = vm.num_physical_frames
    /\ Cardinality(ValidPages(vm)) = vm.num_physical_frames
    /\ \E p \in ValidPages(pre.vm) : p \notin ValidPages(vm)
    /\ \E p \in ValidPages(vm) : p \notin ValidPages(pre.vm)

\* the Clock scenario before its last read: reads of the first bytes of pages
\* 0, 1 and 2 and one more of page 0, on a new VirtualMemory with the
\* parameters of v over its frames
ClockScenarioReads(v) ==
    LET v0 == VirtualMemory(v.num_virtual_pages, v.num_physical_frames,
                            v.page_size, v.policy)
        m0 == PhysicalMemory(v.num_physical_frames * v.page_size)
        r1 == VmReadCall(v0, m0, 0)
        r2 == VmReadCall(r1.vm, r1.memory, v.page_size)
        r3 == VmReadCall(r2.vm, r2.memory, 2 * v.page_size)
        r4 == VmReadCall(r3.vm, r3.memory, 0)
    IN  [vm |-> r4.vm, memory |-> r4.memory]

\* the last call was the scenario's last read, of the first byte of page 3,
\* after exactly the scenario's four reads, with four pages over three frames
\* under CLOCK
ClockScenarioDone ==
    /\ vm.policy = "CLOCK"
    /\ vm.num_virtual_pages = 4
    /\ vm.num_physical_frames = 3
    /\ last.op = "read"
    /\ last.arg = 3 * vm.page_size
    /\ pre.vm = ClockScenarioReads(vm).vm
    /\ pre.memory = ClockScenarioReads(vm).memory

\* C10 as claimed: the scenario's last read puts out page 1 and page 0 stays
\* in its frame.
ClockEvictsPageOne ==
    ClockScenarioDone =>
        /\ ~vm.page_table[1].valid
        /\ vm.page_table[0].valid

\* C10: the scenario's last read puts out page 0. Every page in a frame has
\* had its reference bit set since its load, so the hand clears the bits of
\* pages 0, 1 and 2, passes the invalid page 3 and finds page 0 clear; the
\* read succeeds with the first byte of page 3's disk pattern, page 3 takes
\* frame 0, pages 1 and 2 stay in their frames with clear reference bits and
\* the hand stops at page 1.
ClockEvictsPageZero ==
    ClockScenarioDone =>
        /\ last.success
        /\ last.value = (3 * vm.page_size) % 256
        /\ ValidPages(vm) = {1, 2, 3}
        /\ vm.page_table[3].frame_number = 0
        /\ vm.page_table[3].referenced
        /\ ~vm.page_table[1].referenced
        /\ ~vm.page_table[2].referenced
        /\ vm.page_table[1].frame_number = 1
        /\ vm.page_table[2].frame_number = 2
        /\ vm.clock_hand = 1
        /\ vm.stats = [page_faults |-> 4, page_hits |-> 1, total_accesses |-> 5]

\* the scenario has run to its end and its last read was served
ClockScenarioServed ==
    /\ ClockScenarioDone
    /\ last.success
    /\ pre.vm.page_table[0].referenced
    /\ ~pre.vm.page_table[3].valid

\* C11: after a successful write(va, v), whatever the policy and the state
\* before, a translate(va) made next is a page hit that puts no page in or out,
\* its result p lies in [0, num_physical_frames * page_size), and the memory
\* holds v at p.
VmWriteThenTranslate ==
    (last.op = "write" /\ last.success) =>
        \E t \in {VmTranslateCall(vm, memory, last.arg)} :
            /\ t.success
            /\ t.vm.stats.page_hits = vm.stats.page_hits + 1
            /\ t.vm.stats.page_faults = vm.stats.page_faults
            /\ ValidPages(t.vm) = ValidPages(vm)
            /\ t.vm.frame_allocated = vm.frame_allocated
            /\ t.memory = memory
            /\ t.value < vm.num_physical_frames * vm.page_size
            /\ MemReadOk(memory, t.value)
            /\ MemRead(memory, t.value) = last.data

\* a write has succeeded on a page that it had to bring in by putting another
\* page out
VmWriteEvicted ==
    /\ last.op = "write"
    /\ last.success
    /\ Cardinality(ValidPages(pre.vm)) = vm.num_physical_frames
    /\ ~pre.vm.page_table[VmParseAddress(vm, last.arg).page_number].valid

(***************************************************************************)
(* Properties of a VirtualMemory beside a CacheHierarchy, under SpecSys.   *)
(***************************************************************************)
\* C12: in any reachable state of a VirtualMemory and a CacheHierarchy over
\* one memory, after a successful vm.write(va, v), with p the result of
\* vm.translate(va), a read of p through the hierarchy returns v.
VmWriteVisibleThroughCache ==
    (last.op = "vm.write" /\ last.success) =>
        \E t \in {VmTranslateCall(vm, memory, last.arg)} :
            \E r \in {HierReadCall(hier, l1, l2, t.memory, t.value)} :
                /\ t.success
                /\ r.success
                /\ r.value = last.data

(***************************************************************************)
(* Round trips, errors and counters of the allocators, under SpecAlloc.    *)
(***************************************************************************)
\* the blocks of a StandardAllocator as (start, size, free) in list order
Layout(head) ==
    [i \in 1..Len(head) |->
        [start_address |-> head[i].start_address, size |-> head[i].size,
         is_free |-> head[i].is_free]]

\* the free blocks of a BuddyAllocator as (start, size), in the order of each
\* size class
FreeLayout(free_lists) ==
    [sz \in DOMAIN free_lists |->
        [i \in 1..Len(free_lists[sz]) |->
            [start_address |-> free_lists[sz][i].start_address,
             size |-> free_lists[sz][i].size]]]

\* allocate(s), deallocate of the id it returned and allocate(s) again, made on
\* the current StandardAllocator: everything is as before the first call and
\* the second allocation has the address of the first
StdRoundTrip(s) ==
    \E a \in {StdAllocateCall(std, memory, s)} :
        a.success =>
            \E d \in {StdDeallocateCall(a.std, a.memory, a.value)} :
                \E again \in {StdAllocateCall(d.std, d.memory, s)} :
                    /\ d.success
                    /\ d.memory.used_size = memory.used_size
                    /\ Layout(d.std.head) = Layout(std.head)
                    /\ again.success
                    /\ again.std.allocated_blocks[again.value] =
                           a.std.allocated_blocks[a.value]

\* the same on the current BuddyAllocator
BuddyRoundTrip(s) ==
    \E a \in {BuddyAllocateCall(buddy, memory, s)} :
        a.success =>
            \E d \in {BuddyDeallocateCall(a.buddy, a.memory, a.value)} :
                \E again \in {BuddyAllocateCall(d.buddy, d.memory, s)} :
                    /\ d.success
                    /\ d.memory.used_size = memory.used_size
                    /\ FreeLayout(d.buddy.free_lists) = FreeLayout(buddy.free_lists)
                    /\ again.success
                    /\ again.buddy.allocated_blocks[again.value].start_address =
                           a.buddy.allocated_blocks[a.value].start_address

StdRoundTripRestores == std # Idle => \A s \in Sizes : StdRoundTrip(s)

\* C13: in any reachable allocator state a successful allocate(s) followed at
\* once by deallocate of the returned id restores used_size and the free
\* structure exactly (the same blocks in the same order), so that the next
\* allocate(s) is served at the same address as the first.
RoundTripRestores ==
    /\ StdRoundTripRestores
    /\ buddy # Idle => \A s \in Sizes : BuddyRoundTrip(s)

\* the live blocks of the allocator in use in state x, as (id, start, size)
LiveBlocks(x) ==
    IF x.std # Idle
    THEN {[id |-> x.std.head[i].id, start_address |-> x.std.head[i].start_address,
           size |-> x.std.head[i].size] :
             i \in {j \in 1..Len(x.std.head) : ~x.std.head[j].is_free}}
    ELSE {[id |-> x.buddy.allocated_blocks[k].id,
           start_address |-> x.buddy.allocated_blocks[k].start_address,
           size |-> x.buddy.allocated_blocks[k].size] :
             k \in DOMAIN x.buddy.allocated_blocks}

\* the last call was a deallocate of an id no live block had, or a
\* deallocate_by_addr of an address no live block started at
DeallocatedUnknown ==
    \/ /\ last.op = "deallocate"
       /\ \A b \in LiveBlocks(pre) : b.id # last.arg
    \/ /\ last.op = "deallocate_by_addr"
       /\ \A b \in LiveBlocks(pre) : b.start_address # last.arg

\* C14: deallocate(id) of an id that is not a live allocation (never issued or
\* already deallocated) and deallocate_by_addr(a) of an address that is not the
\* start of a live block (an address inside a live block too) return an error
\* and leave the blocks, the live allocations and used_size as they were.
DeallocateUnknownRefused ==
    DeallocatedUnknown =>
        /\ ~last.success
        /\ memory = pre.memory
        /\ LiveBlocks(Snapshot) = LiveBlocks(pre)
        /\ std # Idle =>
               /\ std.head = pre.std.head
               /\ std.allocated_blocks = pre.std.allocated_blocks
               /\ std.address_to_block = pre.std.address_to_block
        /\ buddy # Idle =>
               /\ buddy.free_lists = pre.buddy.free_lists
               /\ buddy.allocated_blocks = pre.buddy.allocated_blocks
               /\ buddy.address_to_block = pre.buddy.address_to_block

\* a deallocate_by_addr of an address strictly inside a live block was refused
InsideAddressRefused ==
    /\ last.op = "deallocate_by_addr"
    /\ ~last.success
    /\ \E b \in LiveBlocks(pre) :
           b.start_address < last.arg /\ last.arg < b.start_address + b.size

\* a second deallocate of an id was refused
DoubleFreeRefused ==
    /\ last.op = "deallocate"
    /\ ~last.success
    /\ last.arg >= 1
    /\ \/ std # Idle /\ last.arg < std.next_block_id
       \/ buddy # Idle /\ last.arg < buddy.next_block_id

\* the counters, the next id, the blocks and the lookup maps of the allocator in
\* use in state x
AllocatorOf(x) == IF x.std # Idle THEN x.std ELSE x.buddy

BlocksOf(x) ==
    IF x.std # Idle
    THEN [layout |-> x.std.head, allocated_blocks |-> x.std.allocated_blocks,
          address_to_block |-> x.std.address_to_block]
    ELSE [layout |-> x.buddy.free_lists, allocated_blocks |-> x.buddy.allocated_blocks,
          address_to_block |-> x.buddy.address_to_block]

\* C15: for both allocators every allocate adds one to total_allocations; one
\* that fails (size 0 or no block to serve it) also adds one to
\* failed_allocations and leaves the blocks, the live allocations, used_size and
\* the next block id unchanged; failed_allocations <= total_allocations always.
AllocateCounts ==
    /\ AllocatorOf(Snapshot).failed_allocations <= AllocatorOf(Snapshot).total_allocations
    /\ last.op = "allocate" =>
           /\ AllocatorOf(Snapshot).total_allocations =
                  AllocatorOf(pre).total_allocations + 1
           /\ last.arg = 0 => ~last.success
           /\ last.success =>
                  AllocatorOf(Snapshot).failed_allocations =
                      AllocatorOf(pre).failed_allocations
           /\ ~last.success =>
                  /\ AllocatorOf(Snapshot).failed_allocations =
                         AllocatorOf(pre).failed_allocations + 1
                  /\ BlocksOf(Snapshot) = BlocksOf(pre)
                  /\ memory = pre.memory
                  /\ AllocatorOf(Snapshot).next_block_id = AllocatorOf(pre).next_block_id

\* an allocate of a size above zero failed while a block was live
AllocateFailedForSpace ==
    /\ last.op = "allocate"
    /\ ~last.success
    /\ last.arg > 0
    /\ LiveBlocks(pre) # {}

\* C16: the ids that successful allocate calls return are not zero, start at 1,
\* grow strictly and are never used again after a deallocate; no two live
\* blocks have the same id; a failed allocate uses up no id.
BlockIdsFresh ==
    /\ last.op # NoReturn =>
           AllocatorOf(Snapshot).next_block_id =
               1 + AllocatorOf(Snapshot).total_allocations
                 - AllocatorOf(Snapshot).failed_allocations
    /\ \A b \in LiveBlocks(Snapshot) :
           b.id >= 1 /\ b.id < AllocatorOf(Snapshot).next_block_id
    /\ \A b, c \in LiveBlocks(Snapshot) : b.id = c.id => b = c
    /\ pre # Idle =>
           AllocatorOf(Snapshot).next_block_id >= AllocatorOf(pre).next_block_id
    /\ (last.op = "allocate" /\ last.success) =>
           /\ last.value = AllocatorOf(pre).next_block_id
           /\ AllocatorOf(Snapshot).next_block_id = last.value + 1
           /\ \E b \in LiveBlocks(Snapshot) : b.id = last.value
    /\ ~last.success =>
           AllocatorOf(Snapshot).next_block_id = AllocatorOf(pre).next_block_id

\* an allocate was served after an earlier block had been deallocated, at the
\* start address of that block
AllocatedAfterFree ==
    /\ last.op = "allocate"
    /\ last.success
    /\ Cardinality(LiveBlocks(Snapshot)) < last.value
    /\ \E b \in LiveBlocks(Snapshot) : b.id = last.value /\ b.start_address = 0

(***************************************************************************)
(* The construction of a BuddyAllocator, under SpecBuddyNew.               *)
(***************************************************************************)
\* C17: the construction of a BuddyAllocator fails exactly when total_size is
\* not a power of two, or min_block_size is not a power of two, or
\* min_block_size > total_size; otherwise it yields one free block of size
\* total_size at address 0.
BuddyConstructionChecked ==
    last.op = "new" =>
        /\ last.success <=>
               /\ isPowerOfTwo(last.arg)
               /\ isPowerOfTwo(last.data)
               /\ last.data <= last.arg
        /\ last.success =>
               /\ BuddyFreeBlocks = {BuddyBlock(0, last.arg, TRUE)}
               /\ buddy.allocated_blocks = <<>>

\* the smallest power of two that is at least s
SmallestPowerOfTwo(s) ==
    CHOOSE p \in {Pow2(k) : k \in 0..s} :
        /\ p >= s
        /\ \A q \in {Pow2(k) : k \in 0..s} : q >= s => p <= q

\* the size that serves a request of s bytes
ServingSize(b, s) ==
    IF SmallestPowerOfTwo(s) < b.min_block_size THEN b.min_block_size
    ELSE SmallestPowerOfTwo(s)

\* whether max(min_block_size, smallest power of two >= s) is above total_size:
\* every power of two up to total_size is below s, or min_block_size is above
AboveTotal(b, m, s) ==
    \/ b.min_block_size > m.total_size
    \/ \A k \in 0..m.total_size : Pow2(k) <= m.total_size => Pow2(k) < s

\* what C18 says of a call to allocate that returned
BuddyServesRoundedSizeOnReturn ==
    (buddy # Idle /\ last.op = "allocate") =>
        /\ last.success =>
               /\ buddy.allocated_blocks[last.value].size =
                      ServingSize(pre.buddy, last.arg)
               /\ memory.used_size =
                      pre.memory.used_size + ServingSize(pre.buddy, last.arg)
        /\ AboveTotal(pre.buddy, pre.memory, last.arg) =>
               /\ ~last.success
               /\ buddy.free_lists = pre.buddy.free_lists
               /\ buddy.allocated_blocks = pre.buddy.allocated_blocks
               /\ memory = pre.memory

\* C18: a successful allocate(s) of a BuddyAllocator serves a block of exactly
\* max(min_block_size, smallest power of two >= s) bytes and used_size grows
\* by that much; when that size is above total_size the call fails and changes
\* no block.
BuddyServesRoundedSize ==
    /\ BuddyServesRoundedSizeOnReturn
    /\ (buddy # Idle /\ last.arg > 0 /\ last.op \in {"allocate", NoReturn}
           /\ AboveTotal(pre.buddy, pre.memory, last.arg)) =>
           last.op = "allocate" /\ ~last.success

\* a request of three bytes was served with four while another block was live
BuddyRoundedUp ==
    /\ buddy # Idle
    /\ last.op = "allocate"
    /\ last.success
    /\ last.arg = 3
    /\ buddy.min_block_size < 4
    /\ DOMAIN pre.buddy.allocated_blocks # {}

\* a request whose rounded size is above total_size was refused by an
\* allocator that can serve smaller ones
BuddyRefusedAboveTotal ==
    /\ buddy # Idle
    /\ last.op = "allocate"
    /\ last.arg > 0
    /\ ~last.success
    /\ buddy.min_block_size <= memory.total_size
    /\ last.arg <= 2 * memory.total_size
    /\ SmallestPowerOfTwo(last.arg) > memory.total_size

\* the sizes k of C19: the powers of two from min_block_size to total_size / 2
PairSizes(b) ==
    {k \in 1..(b.max_block_size \div 2) : isPowerOfTwo(k) /\ k >= b.min_block_size}

\* no call has been made on the allocator since its construction
BuddyFresh(b) ==
    b.total_allocations = 0 /\ b.total_deallocations = 0 /\ b.next_block_id = 1

\* exactly two calls have been made on the allocator since its construction,
\* allocate(k) and allocate(k) for one k of PairSizes, and both were served
BuddyFirstPairServed ==
    /\ buddy # Idle
    /\ buddy.total_allocations = 2
    /\ buddy.total_deallocations = 0
    /\ DOMAIN buddy.allocated_blocks = {1, 2}
    /\ buddy.requested_sizes[1] = buddy.requested_sizes[2]
    /\ buddy.requested_sizes[1] \in PairSizes(buddy)

\* C19: on a BuddyAllocator just constructed, for every power of two k from
\* min_block_size to total_size / 2, a = allocate(k) and then b = allocate(k)
\* are both served, addr(a) is a multiple of k, addr(a) is the left half of its
\* pair and addr(b) = addr(a) XOR k.
BuddyFirstPair ==
    /\ (buddy # Idle /\ BuddyFresh(buddy)) =>
           \A k \in PairSizes(buddy) :
               \E a \in {BuddyAllocateCall(buddy, memory, k)} :
                   /\ a.success
                   /\ \E b \in {BuddyAllocateCall(a.buddy, a.memory, k)} : b.success
    /\ BuddyFirstPairServed =>
           LET k == buddy.requested_sizes[1]
               addr_a == buddy.allocated_blocks[1].start_address
               addr_b == buddy.allocated_blocks[2].start_address
           IN  /\ addr_a % k = 0
               /\ BitAnd(addr_a, k) = 0
               /\ addr_b = BitXor(addr_a, k)

\* the pair was served after more than one split: two blocks of a quarter of
\* the total size or less
BuddyFirstPairSplitTwice ==
    /\ BuddyFirstPairServed
    /\ last.op = "allocate"
    /\ buddy.requested_sizes[1] * 4 <= memory.total_size
    /\ buddy.requested_sizes[1] > 1

(***************************************************************************)
(* Coalescing of the BuddyAllocator                                        *)
(***************************************************************************)
\* a sequence of allocate and deallocate calls made on an allocator: for each
\* call whether it succeeded and used_size after it
RECURSIVE BuddyRun(_, _, _)
BuddyRun(b, m, cs) ==
    IF cs = <<>> THEN <<>>
    ELSE LET Step(r) ==
                 <<[success |-> r.success, used_size |-> r.memory.used_size]>>
                     \o BuddyRun(r.buddy, r.memory, Tail(cs))
         IN  Once(Step, {IF Head(cs).op = "allocate"
                         THEN BuddyAllocateCall(b, m, Head(cs).arg)
                         ELSE BuddyDeallocateCall(b, m, Head(cs).arg)})

\* the orders in which four blocks can be deallocated
DeallocOrders == {p \in [1..4 -> 1..4] : \A i, j \in 1..4 : p[i] = p[j] => i = j}

\* RecursiveCoalescing with blocks of k bytes: four allocate(k), the four
\* deallocate in the given order, allocate(4k)
CoalescingCalls(k, order) ==
    [i \in 1..4 |-> [op |-> "allocate", arg |-> k]]
        \o [i \in 1..4 |-> [op |-> "deallocate", arg |-> order[i]]]
        \o <<[op |-> "allocate", arg |-> 4 * k]>>

\* the sizes the scenario can use on an allocator: 64 on 1024/32
CoalescingSizes(b) ==
    {k \in 1..(b.max_block_size \div 4) : isPowerOfTwo(k) /\ k >= b.min_block_size}

\* no live allocation is left: one free block of total_size at address 0
BuddyAllFreeIsOneBlock ==
    (buddy # Idle /\ DOMAIN buddy.allocated_blocks = {}) =>
        /\ buddy.free_lists = BuddyAllocator(memory, buddy.min_block_size).free_lists
        /\ memory.used_size = 0

\* the scenario on an allocator just constructed: every call succeeds and
\* used_size goes k, 2k, 3k, 4k, 3k, 2k, k, 0, 4k
BuddyCoalescingScenario ==
    (buddy # Idle /\ BuddyFresh(buddy)) =>
        /\ memory.used_size = 0
        /\ \A k \in CoalescingSizes(buddy) : \A order \in DeallocOrders :
               BuddyRun(buddy, memory, CoalescingCalls(k, order)) =
                   [i \in 1..9 |->
                       [success |-> TRUE,
                        used_size |-> k * <<1, 2, 3, 4, 3, 2, 1, 0, 4>>[i]]]

\* what C20 says of the allocators whose min_block_size is not above total_size
BuddyCoalescesWhereServable ==
    /\ BuddyAllFreeIsOneBlock
    /\ BuddyCoalescingScenario
    /\ (buddy # Idle /\ DOMAIN buddy.allocated_blocks = {}
           /\ buddy.min_block_size <= memory.total_size) =>
           BuddyAllocateCall(buddy, memory, memory.total_size).success

\* C20: whenever a BuddyAllocator has no live allocation left, its free lists
\* hold exactly one block, of size total_size at address 0, and
\* allocate(total_size) succeeds; four allocate(k), four deallocate and
\* allocate(4k) on an allocator just constructed all succeed, with used_size
\* going 0, k, 2k, 3k, 4k, 3k, 2k, k, 0, 4k.
BuddyCoalescesFully ==
    /\ BuddyAllFreeIsOneBlock
    /\ BuddyCoalescingScenario
    /\ (buddy # Idle /\ DOMAIN buddy.allocated_blocks = {}) =>
           BuddyAllocateCall(buddy, memory, memory.total_size).success

\* two blocks that took three splits have been deallocated, the right one
\* first, and nothing is live
BuddyAllFreedAgain ==
    /\ buddy # Idle
    /\ DOMAIN buddy.allocated_blocks = {}
    /\ buddy.total_allocations - buddy.failed_allocations = 2
    /\ last.op = "deallocate"
    /\ last.success
    /\ last.arg = 1
    /\ pre.buddy.free_lists[1] # <<>>
    /\ memory.total_size = 8

(***************************************************************************)
(* Placement strategies of the StandardAllocator                           *)
(***************************************************************************)
\* the free blocks of a block list that can hold size bytes
FitBlocks(head, size) ==
    {head[i] : i \in {j \in 1..Len(head) : head[j].is_free /\ head[j].size >= size}}

\* the block each strategy is to serve among the blocks that fit
StrategyChoice(strategy, fit) ==
    CASE strategy = "FIRST_FIT" ->
             CHOOSE b \in fit : \A c \in fit : b.start_address <= c.start_address
      [] strategy = "BEST_FIT" ->
             CHOOSE b \in fit : \A c \in fit :
                 \/ b.size < c.size
                 \/ b.size = c.size /\ b.start_address <= c.start_address
      [] strategy = "WORST_FIT" ->
             CHOOSE b \in fit : \A c \in fit :
                 \/ b.size > c.size
                 \/ b.size = c.size /\ b.start_address <= c.start_address

\* allocate(size) on the allocator a serves the block its strategy names, and
\* fails, counted as a failure, exactly when no free block fits
StdServesChoice(a, m, size) ==
    \E r \in {StdAllocateCall(a, m, size)} :
        /\ r.success <=> FitBlocks(a.head, size) # {}
        /\ r.success =>
               r.std.allocated_blocks[r.value] =
                   StrategyChoice(a.strategy, FitBlocks(a.head, size)).start_address
        /\ ~r.success =>
               /\ r.std.head = a.head
               /\ r.std.failed_allocations = a.failed_allocations + 1

\* C21: StandardAllocator.allocate(s) with s > 0 serves, among the free blocks
\* of size >= s, the one at the lowest address under FIRST_FIT, the smallest
\* one (lowest address among equals) under BEST_FIT and the largest one (lowest
\* address among equals) under WORST_FIT; it fails exactly when no free block
\* has size >= s, whatever the total free memory.
StdStrategyServes ==
    std # Idle =>
        /\ \A s \in 1..(StdTotal + 1) : StdServesChoice(std, memory, s)
        /\ (last.op = "allocate" /\ last.arg > 0) =>
               /\ last.success <=> FitBlocks(pre.std.head, last.arg) # {}
               /\ last.success =>
                      std.allocated_blocks[last.value] =
                          StrategyChoice(std.strategy,
                                         FitBlocks(pre.std.head, last.arg)).start_address

\* BEST_FIT served a block that is not the first that fits, out of two holes
\* and more
StdBestFitPassedFirst ==
    /\ std # Idle
    /\ std.strategy = "BEST_FIT"
    /\ last.op = "allocate"
    /\ last.success
    /\ Cardinality(FitBlocks(pre.std.head, last.arg)) >= 2
    /\ \E b \in FitBlocks(pre.std.head, last.arg) :
           b.start_address < std.allocated_blocks[last.value]

\* an allocate failed while the free memory in total was enough
StdRefusedFragmented ==
    /\ std # Idle
    /\ last.op = "allocate"
    /\ ~last.success
    /\ last.arg > 0
    /\ memory.total_size - memory.used_size >= last.arg

(***************************************************************************)
(* Replacement in a CacheLevel                                             *)
(***************************************************************************)
\* the set an address falls into, before and after the last call
SetBefore == pre.l1.sets[parseAddress(pre.l1, last.arg).set_index]
SetAfter == l1.sets[parseAddress(l1, last.arg).set_index]

\* the last call was a read, or a write the memory accepted, on the cache l1
LineAccessed ==
    /\ l1 # Idle
    /\ last.op \in {"read", "write"}
    /\ last.success

\* the last call missed in a set whose ways were all valid
MissedInFullSet ==
    /\ LineAccessed
    /\ ~contains(pre.l1, last.arg)
    /\ \A w \in DOMAIN SetBefore : SetBefore[w].valid

\* the ways whose line the last call replaced
ReplacedWays == {w \in DOMAIN SetBefore : SetAfter[w].tag # SetBefore[w].tag}

\* last_access_time is the time of the latest load, read hit or write hit of
\* the line: an access stamps the line it serves with the new global_time,
\* above every other stamp, and changes no other stamp
AccessStamped ==
    LineAccessed =>
        /\ l1.global_time = pre.l1.global_time + 1
        /\ \E w \in DOMAIN SetAfter :
               /\ SetAfter[w].valid
               /\ SetAfter[w].tag = parseAddress(l1, last.arg).tag
               /\ SetAfter[w].last_access_time = l1.global_time
               /\ contains(pre.l1, last.arg) =>
                      /\ SetBefore[w].valid /\ SetBefore[w].tag = SetAfter[w].tag
                      /\ SetAfter[w].insertion_order = SetBefore[w].insertion_order
               /\ ~contains(pre.l1, last.arg) =>
                      SetAfter[w].insertion_order = l1.global_time
               /\ \A v \in DOMAIN SetAfter \ {w} :
                      /\ SetAfter[v] = SetBefore[v]
                      /\ SetBefore[v].last_access_time < l1.global_time
                      /\ SetBefore[v].insertion_order < l1.global_time

\* C22: under LRU a read that misses in a set whose ways are all valid puts out
\* exactly the line of the set whose latest access (load, read hit or write
\* hit) is the oldest and keeps every other line; the read is counted as a
\* miss, the block read is in the cache afterwards and the block put out is not.
LruEvictsOldestAccess ==
    /\ AccessStamped
    /\ (MissedInFullSet /\ l1.policy = "LRU" /\ last.op = "read") =>
           /\ l1.stats.misses = pre.l1.stats.misses + 1
           /\ l1.stats.hits = pre.l1.stats.hits
           /\ contains(l1, last.arg)
           /\ \E w \in DOMAIN SetBefore :
                  /\ ReplacedWays = {w}
                  /\ \A v \in DOMAIN SetBefore \ {w} :
                         /\ SetBefore[w].last_access_time < SetBefore[v].last_access_time
                         /\ SetAfter[v] = SetBefore[v]
                  /\ FindLineFrom(SetAfter, SetBefore[w].tag, 1) = Null

\* the scenario read(0), read(b), read(0), read(2b): the fourth read missed and
\* put out the line loaded second, the line loaded first having been read since
LruScenarioDone ==
    /\ MissedInFullSet
    /\ l1.policy = "LRU"
    /\ last.op = "read"
    /\ calls = 4
    /\ last.arg = 2 * l1.block_size
    /\ contains(l1, 0)
    /\ ~contains(l1, l1.block_size)
    /\ contains(l1, 2 * l1.block_size)
    /\ \E w \in ReplacedWays : \E v \in DOMAIN SetBefore :
           SetBefore[v].insertion_order < SetBefore[w].insertion_order

\* the ways the last call loaded a block into
LoadedWays == {w \in DOMAIN SetAfter : SetAfter[w].insertion_order = l1.global_time}

\* C23: no valid line is put out while its set has an invalid way: a miss
\* fills the invalid way of the lowest index; under FIFO a miss in a full set
\* puts out the line loaded earliest (the lowest way among equals), whatever
\* hits it received since, and keeps every other line.
FifoEvictsOldestLoad ==
    /\ AccessStamped
    /\ (LineAccessed /\ ~contains(pre.l1, last.arg)) =>
           \E w \in DOMAIN SetBefore :
               /\ LoadedWays = {w}
               /\ \A v \in DOMAIN SetBefore \ {w} : SetAfter[v] = SetBefore[v]
               /\ (\E v \in DOMAIN SetBefore : ~SetBefore[v].valid) =>
                      /\ ~SetBefore[w].valid
                      /\ \A v \in DOMAIN SetBefore : ~SetBefore[v].valid => w <= v
               /\ (MissedInFullSet /\ l1.policy = "FIFO") =>
                      \A v \in DOMAIN SetBefore \ {w} :
                          \/ SetBefore[w].insertion_order < SetBefore[v].insertion_order
                          \/ /\ SetBefore[w].insertion_order = SetBefore[v].insertion_order
                             /\ w < v

\* under FIFO a miss in a full set put out the line loaded first although it
\* was the one accessed last
FifoEvictedAfterHit ==
    /\ MissedInFullSet
    /\ l1.policy = "FIFO"
    /\ \E w \in LoadedWays :
           /\ SetBefore[w].access_count > 1
           /\ \A v \in DOMAIN SetBefore \ {w} :
                  SetBefore[v].last_access_time < SetBefore[w].last_access_time

\* a miss filled the second way of a set whose first way held a valid line
FilledInvalidWay ==
    /\ LineAccessed
    /\ ~contains(pre.l1, last.arg)
    /\ SetBefore[1].valid
    /\ ~SetBefore[2].valid
    /\ SetAfter[2].valid

(***************************************************************************)
(* Page replacement in a VirtualMemory                                     *)
(***************************************************************************)
\* the page of the last call's address
PageAccessed == VmParseAddress(vm, last.arg).page_number

\* the last call was a translate, read or write of a page of the table
VmPageCall ==
    /\ vm # Idle
    /\ last.op \in {"translate", "read", "write"}
    /\ PageAccessed < vm.num_virtual_pages

\* the last call was a page fault that found every frame allocated
FaultedWithoutFreeFrame ==
    /\ VmPageCall
    /\ ~pre.vm.page_table[PageAccessed].valid
    /\ \A f \in DOMAIN pre.vm.frame_allocated : pre.vm.frame_allocated[f]

\* the pages the last call put out
EvictedPages ==
    {q \in DOMAIN pre.vm.page_table :
        pre.vm.page_table[q].valid /\ ~vm.page_table[q].valid}

\* the pages the last call left in their frames
KeptPages ==
    {q \in DOMAIN pre.vm.page_table \ {PageAccessed} :
        pre.vm.page_table[q].valid /\ vm.page_table[q].valid}

\* last_access is the time of a page's latest translate, read or write and
\* load_time the time of its load: the call stamps its page with the new
\* global_time, above every stamp there was, and leaves the stamps of the
\* other pages alone
VmAccessStamped ==
    VmPageCall =>
        /\ vm.global_time = pre.vm.global_time + 1
        /\ vm.page_table[PageAccessed].valid
        /\ vm.page_table[PageAccessed].last_access = vm.global_time
        /\ vm.page_table[PageAccessed].load_time =
               IF pre.vm.page_table[PageAccessed].valid
               THEN pre.vm.page_table[PageAccessed].load_time
               ELSE vm.global_time
        /\ \A q \in DOMAIN pre.vm.page_table :
               /\ pre.vm.page_table[q].last_access < vm.global_time
               /\ pre.vm.page_table[q].load_time < vm.global_time
        /\ \A q \in KeptPages :
               /\ vm.page_table[q].last_access = pre.vm.page_table[q].last_access
               /\ vm.page_table[q].load_time = pre.vm.page_table[q].load_time
               /\ vm.page_table[q].frame_number = pre.vm.page_table[q].frame_number

\* C24: under LRU a page fault that finds every frame allocated puts out
\* exactly one page, the valid page whose latest translate, read or write is
\* the oldest; every page accessed after it stays in its frame.
LruEvictsOldestPage ==
    /\ VmAccessStamped
    /\ (FaultedWithoutFreeFrame /\ vm.policy = "LRU") =>
           \E q \in DOMAIN pre.vm.page_table :
               /\ EvictedPages = {q}
               /\ vm.page_table[PageAccessed].frame_number =
                      pre.vm.page_table[q].frame_number
               /\ \A r \in DOMAIN pre.vm.page_table \ {q} :
                      pre.vm.page_table[r].valid =>
                          /\ pre.vm.page_table[q].last_access
                                 < pre.vm.page_table[r].last_access
                          /\ r \in KeptPages
    /\ (VmPageCall /\ ~FaultedWithoutFreeFrame) => EvictedPages = {}

\* under LRU a fault put out a page that was not the one loaded first, which
\* had been accessed again
LruKeptReaccessedPage ==
    /\ FaultedWithoutFreeFrame
    /\ vm.policy = "LRU"
    /\ \E q \in EvictedPages : \E r \in KeptPages :
           /\ pre.vm.page_table[r].load_time < pre.vm.page_table[q].load_time
           /\ pre.vm.page_table[r].last_access > pre.vm.page_table[q].last_access

\* the pages of a queue, front first, are different and in the order of their
\* load
QueueInLoadOrder(v) ==
    \A i, j \in 1..Len(v.fifo_queue) :
        i < j => v.page_table[v.fifo_queue[i]].load_time
                     < v.page_table[v.fifo_queue[j]].load_time

\* C25: under FIFO, in every reachable state, also after a flush, the FIFO
\* queue holds exactly the valid pages, each once, in the order of their load;
\* a fault that finds every frame allocated puts out the page at the front,
\* the valid page loaded earliest, whatever hits there were since.
FifoQueueHoldsValidPages ==
    (vm # Idle /\ vm.policy = "FIFO") =>
        /\ {vm.fifo_queue[i] : i \in 1..Len(vm.fifo_queue)} = ValidPages(vm)
        /\ Len(vm.fifo_queue) = Cardinality(ValidPages(vm))
        /\ QueueInLoadOrder(vm)
        /\ VmAccessStamped
        /\ FaultedWithoutFreeFrame =>
               /\ EvictedPages = {Head(pre.vm.fifo_queue)}
               /\ \A r \in ValidPages(pre.vm) \ EvictedPages :
                      /\ pre.vm.page_table[Head(pre.vm.fifo_queue)].load_time
                             < pre.vm.page_table[r].load_time
                      /\ r \in KeptPages
               /\ vm.fifo_queue = Append(Tail(pre.vm.fifo_queue), PageAccessed)

\* under FIFO a fault put out the page loaded first although it was the page
\* accessed last
FifoEvictedPageAfterHit ==
    /\ FaultedWithoutFreeFrame
    /\ vm.policy = "FIFO"
    /\ \E q \in EvictedPages : \A r \in KeptPages :
           pre.vm.page_table[r].last_access < pre.vm.page_table[q].last_access

\* under FIFO pages were loaded again after a flush
FifoQueueRefilled ==
    /\ vm # Idle
    /\ vm.policy = "FIFO"
    /\ last.op \in {"translate", "read", "write"}
    /\ Len(vm.fifo_queue) = 2
    /\ vm.stats.page_faults = 4

\* the last call was a translate, read or write of an address past the last
\* page
VmCallPastLastPage ==
    /\ vm # Idle
    /\ last.op \in {"translate", "read", "write"}
    /\ last.arg \div vm.page_size >= vm.num_virtual_pages

\* C26: translate, read and write of a virtual address whose page number is
\* num_virtual_pages or more return an error and leave the page table, the
\* frame allocation, the FIFO queue, the clock hand and every byte of the
\* memory as they were.
VmRefusesPastLastPage ==
    VmCallPastLastPage =>
        /\ ~last.success
        /\ vm.page_table = pre.vm.page_table
        /\ vm.frame_allocated = pre.vm.frame_allocated
        /\ vm.fifo_queue = pre.vm.fifo_queue
        /\ vm.clock_hand = pre.vm.clock_hand
        /\ memory = pre.memory

\* a write past the last page was refused while pages were in their frames
\* and the clock hand had moved
VmRefusedWrite ==
    /\ VmCallPastLastPage
    /\ last.op = "write"
    /\ Cardinality(ValidPages(pre.vm)) = pre.vm.num_physical_frames
    /\ vm.policy = "CLOCK" => vm.clock_hand # 0

(***************************************************************************)
(* flush of a CacheLevel, a CacheHierarchy and a VirtualMemory             *)
(***************************************************************************)
\* every line of the cache is invalid and its tag and stamps are zero
FlushedLevel(c) ==
    \A set_index \in DOMAIN c.sets : \A way \in DOMAIN c.sets[set_index] :
        LET line == c.sets[set_index][way]
        IN  /\ ~line.valid
            /\ line.tag = 0
            /\ line.insertion_order = 0
            /\ line.last_access_time = 0
            /\ line.access_count = 0

\* every entry of the page table is invalid and clear, every frame is free,
\* the FIFO queue is empty and the clock hand is 0
FlushedVm(v) ==
    /\ \A q \in DOMAIN v.page_table : v.page_table[q] = PageTableEntry
    /\ \A f \in DOMAIN v.frame_allocated : ~v.frame_allocated[f]
    /\ v.fifo_queue = <<>>
    /\ v.clock_hand = 0

\* the first read and the first write of a flushed CacheLevel are misses
LevelMissesAfterFlush(c, address) ==
    \E f \in {CacheFlushCall(c)} :
        /\ ~contains(f, address)
        /\ \E r \in {CacheReadCall(f, memory, address)} :
               /\ r.cache.stats.misses = c.stats.misses + 1
               /\ r.cache.stats.hits = c.stats.hits
        /\ \E w \in {CacheWriteCall(f, memory, address, 1)} :
               /\ w.cache.stats.misses = c.stats.misses + 1
               /\ w.cache.stats.hits = c.stats.hits

\* the first read of a flushed CacheHierarchy misses in both levels and goes
\* to the memory; its first write is a hit in neither level
HierMissesAfterFlush(address) ==
    \E f1 \in {CacheFlushCall(l1)} : \E f2 \in {CacheFlushCall(l2)} :
        /\ \E r \in {HierReadCall(hier, f1, f2, memory, address)} :
               /\ r.success
               /\ r.l1.stats.hits = l1.stats.hits
               /\ r.l2.stats.hits = l2.stats.hits
               /\ r.l1.stats.misses = l1.stats.misses + 1
               /\ r.l2.stats.misses = l2.stats.misses + 1
               /\ r.hier.memory_access_count = hier.memory_access_count + 1
        /\ \E w \in {HierWriteCall(hier, f1, f2, memory, address, 1)} :
               /\ w.success
               /\ w.l1.stats.hits = l1.stats.hits
               /\ w.l2.stats.hits = l2.stats.hits

\* the first translate, read and write of a page of a flushed VirtualMemory
\* are page faults
VmFaultsAfterFlush(virtual_addr) ==
    \E f \in {VmFlushCall(vm)} :
        \A r \in {VmTranslateCall(f, memory, virtual_addr),
                   VmReadCall(f, memory, virtual_addr),
                   VmWriteCall(f, memory, virtual_addr, 1)} :
            /\ r.success
            /\ r.vm.stats.page_faults = vm.stats.page_faults + 1
            /\ r.vm.stats.page_hits = vm.stats.page_hits

\* C27: flush of a CacheLevel, of a CacheHierarchy and of a VirtualMemory
\* invalidates every line and every page-table entry and clears their stamps
\* (every frame free, the FIFO queue empty, the clock hand 0), leaves the
\* counters and the memory as they were, and changes nothing when repeated;
\* the first access to a block or a page after a flush is no hit: a miss of a
\* CacheLevel, a read from the memory that misses in both levels of a
\* CacheHierarchy, a page fault of a VirtualMemory.
FlushClearsAndKeepsCounters ==
    (vm # Idle /\ hier # Idle) =>
        /\ last.op = "cache.flush" =>
               /\ FlushedLevel(l1) /\ FlushedLevel(l2)
               /\ l1.stats = pre.l1.stats /\ l2.stats = pre.l2.stats
               /\ hier = pre.hier
               /\ memory = pre.memory
               /\ vm = pre.vm
        /\ last.op = "vm.flush" =>
               /\ FlushedVm(vm)
               /\ vm.stats = pre.vm.stats
               /\ memory = pre.memory
               /\ l1 = pre.l1 /\ l2 = pre.l2 /\ hier = pre.hier
        /\ \A c \in {l1, l2} :
               CacheFlushCall(CacheFlushCall(c)) = CacheFlushCall(c)
        /\ VmFlushCall(VmFlushCall(vm)) = VmFlushCall(vm)
        /\ \A address \in 0..(memory.total_size - 1) :
               /\ LevelMissesAfterFlush(l1, address)
               /\ LevelMissesAfterFlush(l2, address)
               /\ HierMissesAfterFlush(address)
        /\ \A virtual_addr \in 0..(vm.num_virtual_pages * vm.page_size - 1) :
               VmFaultsAfterFlush(virtual_addr)

\* the caches were flushed with a valid line in each level and counted misses
CachesFlushedWhenLoaded ==
    /\ hier # Idle
    /\ last.op = "cache.flush"
    /\ ~FlushedLevel(pre.l1)
    /\ ~FlushedLevel(pre.l2)
    /\ l1.stats.misses > 0

\* the VirtualMemory was flushed with a page in its frame and a fault counted
VmFlushedWhenLoaded ==
    /\ vm # Idle
    /\ last.op = "vm.flush"
    /\ ~FlushedVm(pre.vm)
    /\ vm.stats.page_faults > 0

(***************************************************************************)
(* CacheLevel::contains                                                    *)
(***************************************************************************)
\* some valid line of the address's set carries the address's tag; the block
\* number is address / block_size, its set the remainder by num_sets and its
\* tag the quotient
HoldsBlock(c, address) ==
    LET block == address \div c.block_size
        set == c.sets[block % c.num_sets]
    IN  \E way \in DOMAIN set :
            set[way].valid /\ set[way].tag = block \div c.num_sets

\* C28: contains(addr) of a CacheLevel returns true exactly when a valid line
\* of addr's set carries addr's tag, and changes neither hits, misses,
\* accesses, global_time nor any field of any line.
ContainsIsPure ==
    (l1 # Idle /\ last.op = "contains") =>
        /\ last.value = (IF HoldsBlock(pre.l1, last.arg) THEN 1 ELSE 0)
        /\ l1.stats = pre.l1.stats
        /\ l1.global_time = pre.l1.global_time
        /\ l1.sets = pre.l1.sets
        /\ l1 = pre.l1
        /\ memory = pre.memory

\* contains answered true for a block that had been loaded and hit
ContainsFoundBlock ==
    /\ l1 # Idle
    /\ last.op = "contains"
    /\ last.value = 1
    /\ l1.stats.hits > 0
    /\ l1.stats.misses > 0

\* contains answered false for block 0 in a cache that had loaded a block
ContainsMissedBlock ==
    /\ l1 # Idle
    /\ last.op = "contains"
    /\ last.arg = 0
    /\ last.value = 0
    /\ l1.stats.misses > 0

(***************************************************************************)
(* The access counters of a CacheHierarchy                                 *)
(***************************************************************************)
\* HierarchyStats::total_accesses of getStats
HierTotalAccesses == l1.stats.accesses + l2.stats.accesses

\* a sequence of CacheHierarchy.read calls: the number of them that succeeded
\* and l1.accesses afterwards
RECURSIVE HierReads(_, _, _, _, _, _)
HierReads(h, c1, c2, m, addresses, succeeded) ==
    IF addresses = <<>>
    THEN [succeeded |-> succeeded, accesses |-> c1.stats.accesses]
    ELSE LET Rest(r) == HierReads(r.hier, r.l1, r.l2, r.memory, Tail(addresses),
                                  succeeded + (IF r.success THEN 1 ELSE 0))
         IN  Once(Rest, {HierReadCall(h, c1, c2, m, Head(addresses))})

\* C29: every successful CacheHierarchy.read adds exactly one to l1.accesses,
\* whether L1, L2 or the memory serves it; a read that fails and a flush add
\* none, so reads alone leave l1.accesses at the number of successful reads;
\* and l1.hits + l2.hits <= total_accesses = l1.accesses + l2.accesses.
HierReadCountsOnceInL1 ==
    (hier # Idle /\ vm = Idle) =>
        /\ (last.op = "read" /\ last.success) =>
               l1.stats.accesses = pre.l1.stats.accesses + 1
        /\ (last.op = "read" /\ ~last.success) =>
               l1.stats.accesses = pre.l1.stats.accesses
        /\ last.op = "flush" => l1.stats.accesses = pre.l1.stats.accesses
        /\ calls = 0 =>
               \A addresses \in [1..3 -> CacheAddresses] :
                   \E n \in {HierReads(hier, l1, l2, memory, addresses, 0)} :
                       n.accesses = n.succeeded
        /\ l1.stats.hits + l2.stats.hits <= HierTotalAccesses
        /\ l1.stats.hits <= l1.stats.accesses
        /\ l2.stats.hits <= l2.stats.accesses

\* a read was served by L2, the block being in L2 and not in L1
HierReadServedByL2 ==
    /\ hier # Idle
    /\ vm = Idle
    /\ last.op = "read"
    /\ last.success
    /\ ~contains(pre.l1, last.arg)
    /\ contains(pre.l2, last.arg)

(***************************************************************************)
(* The bytes a VirtualMemory reads                                         *)
(***************************************************************************)
\* the byte of the memory that holds byte i of the page q of v
FrameByte(v, m, q, i) == MemRead(m, v.page_table[q].frame_number * v.page_size + i)

\* the byte a page holds when it is loaded: the virtual address modulo 256
DiskByte(v, q, i) == (q * v.page_size + i) % 256

\* byte i of every page q in a frame after a call is the byte the call wrote
\* there, the loaded pattern if the call loaded q, and else the byte q held
\* before the call
FrameBytesFollowWrites ==
    (vm # Idle /\ pre # Idle) =>
        \A q \in ValidPages(vm) : \A i \in 0..(vm.page_size - 1) :
            FrameByte(vm, memory, q, i) =
                IF last.op = "write" /\ last.success
                     /\ last.arg = q * vm.page_size + i
                THEN last.data
                ELSE IF ~pre.vm.page_table[q].valid THEN DiskByte(vm, q, i)
                ELSE FrameByte(pre.vm, pre.memory, q, i)

\* C30: with no writer of the frames but the VirtualMemory, read(va) returns
\* the byte last written by write(va, .) since the latest load of va's page
\* and va mod 256 without such a write: the byte written is read back while
\* the page stays in its frame, and the loaded pattern is read again once the
\* page was put out or flushed and loaded again.
VmReadsLastWrite ==
    (vm # Idle /\ l1 = Idle) =>
        /\ FrameBytesFollowWrites
        /\ (last.op = "read" /\ last.success) =>
               /\ vm.page_table[PageAccessed].valid
               /\ last.value =
                      FrameByte(vm, memory, PageAccessed, last.arg % vm.page_size)
               /\ ~pre.vm.page_table[PageAccessed].valid =>
                      last.value = last.arg % 256
        /\ (last.op = "write" /\ last.success) =>
               /\ VmReadCall(vm, memory, last.arg).value = last.data
               /\ VmReadCall(VmFlushCall(vm), memory, last.arg).value
                      = last.arg % 256

\* a byte was written to a page, the page left its frame, and the read of
\* the byte loaded the page into another frame and returned the pattern: the
\* byte written still lies in the frame the page had left
VmWriteLostByReload ==
    /\ vm # Idle
    /\ l1 = Idle
    /\ last.op = "read"
    /\ last.success
    /\ ~pre.vm.page_table[PageAccessed].valid
    /\ last.arg \in VmWriteAddresses
    /\ last.value = last.arg % 256
    /\ \E f \in 0..(vm.num_physical_frames - 1) :
           /\ f # vm.page_table[PageAccessed].frame_number
           /\ \A q \in ValidPages(vm) : vm.page_table[q].frame_number # f
           /\ MemRead(memory, f * vm.page_size + (last.arg % vm.page_size)) \in VmWriteValues

\* a byte written to a page was read back from the page in its frame
VmReadBackWrite ==
    /\ vm # Idle
    /\ l1 = Idle
    /\ last.op = "read"
    /\ last.success
    /\ last.value = 255
    /\ pre.vm.page_table[PageAccessed].valid

(***************************************************************************)
(* The tags of a set                                                       *)
(***************************************************************************)
\* no two valid lines of a set of c carry the same tag
TagsDistinct(c) ==
    \A set_index \in DOMAIN c.sets :
        \A w1 \in DOMAIN c.sets[set_index] : \A w2 \in DOMAIN c.sets[set_index] :
            (/\ w1 # w2
             /\ c.sets[set_index][w1].valid
             /\ c.sets[set_index][w2].valid)
                => c.sets[set_index][w1].tag # c.sets[set_index][w2].tag

\* C31: in every reachable state of a CacheLevel no two valid lines of a set
\* carry the same tag, under each policy and after any reads, writes and
\* flushes.
SetTagsDistinct ==
    (l1 # Idle /\ hier = Idle /\ vm = Idle) => TagsDistinct(l1)

\* a set of two valid lines has served a hit on its second way: the block was
\* found there and loaded into no other way
HitInSecondWay ==
    /\ l1 # Idle
    /\ hier = Idle
    /\ vm = Idle
    /\ pre # Idle
    /\ last.op \in {"read", "write"}
    /\ last.success
    /\ l1.stats.hits = pre.l1.stats.hits + 1
    /\ LET p == parseAddress(l1, last.arg)
       IN  /\ Len(l1.sets[p.set_index]) = 2
           /\ l1.sets[p.set_index][1].valid
           /\ l1.sets[p.set_index][2].valid
           /\ l1.sets[p.set_index][2].tag = p.tag

(***************************************************************************)
(* A CacheHierarchy read that L2 serves                                    *)
(***************************************************************************)
\* the last call was a read of an address that L2 held and L1 did not
ReadL2HitL1Miss ==
    /\ hier # Idle
    /\ vm = Idle
    /\ last.op = "read"
    /\ ~contains(pre.l1, last.arg)
    /\ contains(pre.l2, last.arg)

\* what the claim says of L2, of the byte and of the memory accesses on such a
\* read: the byte is the one of L2's line, l2.hits grows by one, L2 loads
\* nothing and the memory access count stays
ServedFromL2 ==
    /\ last.success
    /\ last.value = LineOf(pre.l2, last.arg).data[parseAddress(pre.l2, last.arg).offset]
    /\ l2.stats.hits = pre.l2.stats.hits + 1
    /\ l2.stats.misses = pre.l2.stats.misses
    /\ \A set_index \in DOMAIN l2.sets : \A way \in DOMAIN l2.sets[set_index] :
           /\ l2.sets[set_index][way].valid = pre.l2.sets[set_index][way].valid
           /\ l2.sets[set_index][way].tag = pre.l2.sets[set_index][way].tag
           /\ l2.sets[set_index][way].data = pre.l2.sets[set_index][way].data
    /\ hier.memory_access_count = pre.hier.memory_access_count

PositionOf(head, address) ==
    CHOOSE i \in 1..Len(head) : head[i].start_address = address

\* the last call was an allocate of the StandardAllocator that succeeded
StdAllocated ==
    /\ std # Idle
    /\ last.op = "allocate"
    /\ last.success

\* the position, before and after the call, of the block the last allocate
\* served
ServedPosition == PositionOf(pre.std.head, std.allocated_blocks[last.value])

StdSplitOffTwoBytes ==
    /\ StdAllocated
    /\ pre.std.head[ServedPosition].size = last.arg + 2
    /\ std.head[ServedPosition].size = last.arg
    /\ std.head[ServedPosition + 1].is_free
    /\ std.head[ServedPosition + 1].size = 2

(***************************************************************************)
(* The service of a page fault                                             *)
(***************************************************************************)
\* the frames of v that are not allocated
FreeFrames(v) == {f \in DOMAIN v.frame_allocated : ~v.frame_allocated[f]}

\* handlePageFault(page_number) on the VirtualMemory v over m, page_number
\* not being valid: the frame is the lowest free one, or else the frame of
\* the one page put out; the frame holds the pattern of the page, the bytes
\* outside it are as before, and the entry is valid, clean, referenced and
\* stamped with the time of v
FaultServed(v, m, page_number) ==
    \E r \in {handlePageFault(v, m, page_number)} :
        LET f == r.value
            put_out == ValidPages(v) \ ValidPages(r.vm)
        IN  /\ r.success
            /\ IF FreeFrames(v) # {}
               THEN /\ f \in FreeFrames(v)
                    /\ \A g \in FreeFrames(v) : f <= g
                    /\ put_out = {}
               ELSE /\ Cardinality(put_out) = 1
                    /\ \A q \in put_out :
                           /\ f = v.page_table[q].frame_number
                           /\ r.vm.page_table[q] = PteInvalidate(v.page_table[q])
            /\ ValidPages(r.vm) = (ValidPages(v) \ put_out) \cup {page_number}
            /\ r.vm.frame_allocated[f]
            /\ FreeFrames(r.vm) = FreeFrames(v) \ {f}
            /\ \A i \in 0..(v.page_size - 1) :
                   MemRead(r.memory, f * v.page_size + i)
                       = (page_number * v.page_size + i) % 256
            /\ \A a \in DOMAIN m.data :
                   a \div v.page_size # f => r.memory.data[a] = m.data[a]
            /\ r.vm.page_table[page_number] =
                   [valid |-> TRUE, frame_number |-> f, dirty |-> FALSE,
                    referenced |-> TRUE, load_time |-> v.global_time,
                    last_access |-> v.global_time]

\* the last call was a translate, read or write of a page that was not valid
VmFaulted ==
    /\ VmPageCall
    /\ l1 = Idle
    /\ ~pre.vm.page_table[PageAccessed].valid

\* C34: the service of a page fault for the page v takes the lowest free
\* frame f, and without one the frame of the one victim it puts out; it sets
\* memory[f * page_size + i] = (v * page_size + i) mod 256 for every i and
\* makes the entry of v valid with frame f, dirty false, referenced true and
\* load_time = last_access = now; a read(va) that faults returns va mod 256.
PageFaultService ==
    (vm # Idle /\ l1 = Idle) =>
        /\ \A q \in DOMAIN vm.page_table \ ValidPages(vm) : FaultServed(vm, memory, q)
        /\ VmFaulted =>
               /\ last.success
               /\ vm.global_time = pre.vm.global_time + 1
               /\ vm.stats.page_faults = pre.vm.stats.page_faults + 1
               /\ vm.page_table[PageAccessed] =
                      [valid |-> TRUE,
                       frame_number |-> vm.page_table[PageAccessed].frame_number,
                       dirty |-> (last.op = "write"), referenced |-> TRUE,
                       load_time |-> vm.global_time, last_access |-> vm.global_time]
               /\ IF FreeFrames(pre.vm) # {}
                  THEN /\ vm.page_table[PageAccessed].frame_number \in FreeFrames(pre.vm)
                       /\ \A g \in FreeFrames(pre.vm) :
                              vm.page_table[PageAccessed].frame_number <= g
                       /\ EvictedPages = {}
                  ELSE /\ Cardinality(EvictedPages) = 1
                       /\ \A q \in EvictedPages :
                              vm.page_table[PageAccessed].frame_number
                                  = pre.vm.page_table[q].frame_number
               /\ last.op = "read" => last.value = last.arg % 256
               /\ last.op = "translate" =>
                      last.value = vm.page_table[PageAccessed].frame_number * vm.page_size
                                       + (last.arg % vm.page_size)

\* a read faulted with every frame allocated and was served from the frame
\* of its victim, which is not the lowest frame
FaultServedFromVictimFrame ==
    /\ VmFaulted
    /\ last.op = "read"
    /\ last.success
    /\ FreeFrames(pre.vm) = {}
    /\ vm.page_table[PageAccessed].frame_number > 0
    /\ last.value = last.arg % 256
    /\ last.arg > 0

\* a fault was served from the lowest of two free frames, frame 0 being
\* allocated
FaultServedFromLowestFree ==
    /\ VmFaulted
    /\ Cardinality(FreeFrames(pre.vm)) = 2
    /\ vm.page_table[PageAccessed].frame_number = 1

(***************************************************************************)
(* The scan of the Clock policy                                            *)
(***************************************************************************)
\* the pages the hand of v passes in its first n steps
PassedPages(v, n) ==
    {(v.clock_hand + k) % v.num_virtual_pages : k \in 0..(n - 1)}

\* selectVictimPage under CLOCK on v: the loop returns at a page that is
\* valid with its referenced bit clear then, having moved the hand at most
\* 2 * num_virtual_pages times, the return included; the hand is one past
\* the victim, the valid pages it passed have their bits clear, and nothing
\* else of v has changed
ClockScanEnds(v) ==
    \E r \in {selectVictimPage(v)} :
        /\ ~r.fallback
        /\ r.scanned + 1 <= 2 * v.num_virtual_pages
        /\ r.victim \in ValidPages(v)
        /\ r.vm.page_table[r.victim].valid
        /\ ~r.vm.page_table[r.victim].referenced
        /\ r.victim = (v.clock_hand + r.scanned) % v.num_virtual_pages
        /\ r.vm.clock_hand = (r.victim + 1) % v.num_virtual_pages
        /\ \A q \in PassedPages(v, r.scanned) \cap ValidPages(v) :
               ~r.vm.page_table[q].referenced
        /\ \A q \in DOMAIN v.page_table :
               /\ q \notin PassedPages(v, r.scanned) =>
                      r.vm.page_table[q] = v.page_table[q]
               /\ r.vm.page_table[q] = [v.page_table[q] EXCEPT
                                           !.referenced = r.vm.page_table[q].referenced]
               /\ r.vm.page_table[q].referenced => v.page_table[q].referenced
        /\ r.vm = [v EXCEPT !.clock_hand = r.vm.clock_hand,
                            !.page_table = r.vm.page_table]

\* the last call faulted under CLOCK with every frame allocated
ClockFaulted ==
    /\ FaultedWithoutFreeFrame
    /\ l1 = Idle
    /\ vm.policy = "CLOCK"

\* C35: under CLOCK, whenever the victim selection runs, every frame being
\* allocated, the scan ends within 2 * num_virtual_pages steps of the hand at
\* a page that is valid and has its referenced bit clear then; the return
\* after the loop is never reached, the hand is left one past the victim and
\* every valid page the hand passed has its referenced bit clear.
ClockScanFindsVictim ==
    /\ (vm # Idle /\ l1 = Idle /\ vm.policy = "CLOCK" /\ FreeFrames(vm) = {}) =>
           ClockScanEnds(vm)
    /\ ClockFaulted =>
           \E r \in {selectVictimPage(pre.vm)} :
               /\ ~r.fallback
               /\ EvictedPages = {r.victim}
               /\ vm.clock_hand = (r.victim + 1) % vm.num_virtual_pages
               /\ \A q \in KeptPages :
                      vm.page_table[q].referenced = r.vm.page_table[q].referenced

\* a fault under CLOCK found every resident page referenced: the hand went
\* round once, clearing the bits, and took the victim on its second lap
ClockSecondLap ==
    /\ ClockFaulted
    /\ \A q \in ValidPages(pre.vm) : pre.vm.page_table[q].referenced
    /\ selectVictimPage(pre.vm).scanned >= vm.num_virtual_pages
    /\ EvictedPages = {selectVictimPage(pre.vm).victim}

\* a fault under CLOCK took a victim on the first lap of the hand, past a
\* page whose bit it cleared
ClockFirstLap ==
    /\ ClockFaulted
    /\ selectVictimPage(pre.vm).scanned \in 1..(vm.num_virtual_pages - 1)
    /\ \E q \in KeptPages :
           pre.vm.page_table[q].referenced /\ ~vm.page_table[q].referenced

(***************************************************************************)
(* The lines of a CacheHierarchy and the memory                            *)
(***************************************************************************)
\* the address of the first byte of the block that the line with the tag in
\* the set of c holds
BlockAddress(c, set_index, tag) ==
    ShiftLeft(BitOr(ShiftLeft(tag, c.index_bits), set_index), c.offset_bits)

\* every valid line of c tags a block that starts inside the memory m and
\* holds the bytes of m of that block, 0 where the block leaves the memory
LinesHoldMemory(c, m) ==
    \A set_index \in DOMAIN c.sets : \A way \in DOMAIN c.sets[set_index] :
        LET line == c.sets[set_index][way]
            base == BlockAddress(c, set_index, line.tag)
        IN  line.valid =>
                /\ base < m.total_size
                /\ \A i \in DOMAIN line.data :
                       line.data[i] = IF base + i < m.total_size
                                      THEN m.data[base + i] ELSE 0

\* C36: when every write of a byte of the memory goes through
\* CacheHierarchy.write, every valid line of L1 and of L2 holds the bytes the
\* memory has of the block it tags, a block inside the memory, and therefore
\* hierarchy.read(a) = memory.read(a) for every address a of the memory,
\* whatever the block sizes and policies of the two levels.
HierarchyCoherent ==
    (hier # Idle /\ vm = Idle) =>
        /\ LinesHoldMemory(l1, memory)
        /\ LinesHoldMemory(l2, memory)
        /\ \A a \in 0..(memory.total_size - 1) :
               \E r \in {HierReadCall(hier, l1, l2, memory, a)} :
                   /\ r.success
                   /\ r.value = MemRead(memory, a)
                   /\ r.memory = memory
        /\ (last.op = "read" /\ last.arg < memory.total_size) =>
               /\ last.success
               /\ last.value = MemRead(memory, last.arg)
               /\ memory = pre.memory

\* a write changed a byte that both levels held, in lines of different block
\* sizes, and both lines and the memory have the new byte
WriteUpdatedBothLevels ==
    /\ hier # Idle
    /\ vm = Idle
    /\ last.op = "write"
    /\ last.success
    /\ contains(pre.l1, last.arg)
    /\ contains(pre.l2, last.arg)
    /\ l1.block_size # l2.block_size
    /\ pre.memory.data[last.arg] # last.data
    /\ LineOf(l1, last.arg).data[parseAddress(l1, last.arg).offset] = last.data
    /\ LineOf(l2, last.arg).data[parseAddress(l2, last.arg).offset] = last.data
    /\ memory.data[last.arg] = last.data

\* a read served by L2 after a write returned the byte written, which L1 did
\* not hold
L2ServedWrittenByte ==
    /\ ReadL2HitL1Miss
    /\ last.success
    /\ last.value \in WriteValues

(***************************************************************************)
(* CacheLevel reads of addresses outside the memory                        *)
(***************************************************************************)
\* the last call was a read of a CacheLevel at an address outside the memory
ReadOutsideMemory ==
    /\ l1 # Idle
    /\ hier = Idle
    /\ vm = Idle
    /\ last.op = "read"
    /\ last.arg >= memory.total_size

\* C37: CacheLevel.read(addr) with addr >= total_size returns an error, not
\* a byte, and neither allocates nor overwrites a cache line.
ReadOutsideRefused ==
    ReadOutsideMemory =>
        /\ ~last.success
        /\ \A set_index \in DOMAIN l1.sets : \A way \in DOMAIN l1.sets[set_index] :
               /\ l1.sets[set_index][way].valid = pre.l1.sets[set_index][way].valid
               /\ l1.sets[set_index][way].tag = pre.l1.sets[set_index][way].tag
               /\ l1.sets[set_index][way].data = pre.l1.sets[set_index][way].data

\* what the read does instead: it succeeds with the byte 0; on a miss it
\* counts the miss and loads a line of zeros tagged with the block of the
\* address into the victim way, and on a hit it returns the 0 of that line
ReadOutsideLoadsZeros ==
    ReadOutsideMemory =>
        /\ last.success
        /\ last.value = 0
        /\ contains(l1, last.arg)
        /\ \A i \in DOMAIN LineOf(l1, last.arg).data :
               last.arg - parseAddress(l1, last.arg).offset + i >= memory.total_size
                   => LineOf(l1, last.arg).data[i] = 0
        /\ ~contains(pre.l1, last.arg) =>
               /\ l1.stats.misses = pre.l1.stats.misses + 1
               /\ l1.sets # pre.l1.sets
        /\ memory = pre.memory

(***************************************************************************)
(* total_deallocations                                                     *)
(***************************************************************************)
\* the last call was a deallocate or a deallocate_by_addr
Deallocated == last.op \in {"deallocate", "deallocate_by_addr"}

\* total_deallocations of the allocator x moves with the last call as the
\* count of the successful deallocations does: up by one on a deallocate or
\* deallocate_by_addr that succeeded, and not at all on any other call
CountsSuccesses(x, before) ==
    x.total_deallocations =
        before.total_deallocations + (IF Deallocated /\ last.success THEN 1 ELSE 0)

\* C38: for the StandardAllocator and for the BuddyAllocator,
\* total_deallocations is the number of deallocate and deallocate_by_addr
\* calls that succeeded; a deallocate that fails on an unknown id or address
\* does not change it.
DeallocationsCountSuccesses ==
    /\ (std # Idle /\ pre = Idle) => std.total_deallocations = 0
    /\ (buddy # Idle /\ pre = Idle) => buddy.total_deallocations = 0
    /\ (std # Idle /\ pre # Idle) => CountsSuccesses(std, pre.std)
    /\ (buddy # Idle /\ pre # Idle /\ last.op # NoReturn) =>
           CountsSuccesses(buddy, pre.buddy)

\* the part that holds: the StandardAllocator counts the successful
\* deallocations, and the BuddyAllocator counts every deallocate(id), failed
\* ones included, and the deallocate_by_addr calls that found their block
DeallocationsCounted ==
    /\ (std # Idle /\ pre = Idle) => std.total_deallocations = 0
    /\ (buddy # Idle /\ pre = Idle) => buddy.total_deallocations = 0
    /\ (std # Idle /\ pre # Idle) => CountsSuccesses(std, pre.std)
    /\ (buddy # Idle /\ pre # Idle /\ last.op # NoReturn) =>
           buddy.total_deallocations =
               pre.buddy.total_deallocations
                   + (IF last.op = "deallocate" \/ (Deallocated /\ last.success)
                      THEN 1 ELSE 0)

(***************************************************************************)
(* MemoryManager.  physical_memory_, allocator_, cache_ and                *)
(* virtual_memory_ are the variables memory, std or buddy, hier with l1    *)
(* and l2, and vm; Idle is the null pointer.  A PhysicalMemory object is   *)
(* named by the number of its construction: mgr.physical_memory names the  *)
(* object the manager owns, and allocator_memory, cache_memory and         *)
(* vm_memory name the object whose address was handed to the constructor   *)
(* of the subsystem, which the subsystem keeps for its lifetime.           *)
(***************************************************************************)
\* MemoryManager::MemoryManager
MemoryManager ==
    [current_allocator_type |-> "FIRST_FIT",
     physical_memory |-> Null,
     allocator_memory |-> Null,
     cache_memory |-> Null,
     vm_memory |-> Null,
     made |-> 0,
     crashed |-> FALSE]

\* the min block size initMemory and setAllocator hand to the BuddyAllocator
MgrMinBlockSize == 32

\* isMemoryInitialized, isAllocatorSet, isCacheInitialized, isVMInitialized
isMemoryInitialized == memory # Idle
isAllocatorSet == std # Idle \/ buddy # Idle
isCacheInitialized == hier # Idle
isVMInitialized == vm # Idle

\* the subsystem keeps the address of a PhysicalMemory that the manager has
\* replaced, and with that destroyed
Dangling(subsystem_memory) ==
    subsystem_memory # Null /\ subsystem_memory # mgr.physical_memory

\* a call that reads or writes through a pointer to a destroyed
\* PhysicalMemory has undefined behaviour: the program stops there, or the
\* call returns some Result, and no object of the model changes
Undefined(op, arg, data) ==
    /\ \E crashed \in BOOLEAN, success \in BOOLEAN, value \in {0, 255} :
           /\ crashed => (~success /\ value = 0)
           /\ ~success => value = 0
           /\ mgr' = [mgr EXCEPT !.crashed = crashed]
           /\ last' = Call(op, arg, data, success, value)
    /\ UNCHANGED <<memory, std, buddy, l1, l2, hier, vm>>

\* a call refused before it reaches a subsystem
Refused(op, arg, data) ==
    /\ last' = Call(op, arg, data, FALSE, 0)
    /\ UNCHANGED <<memory, std, buddy, l1, l2, hier, vm, mgr>>

\* what every call of the manager does to the bookkeeping of the model
MgrCalled ==
    /\ mgr # Idle
    /\ ~mgr.crashed
    /\ calls < MaxMgrCalls
    /\ pre' = Snapshot
    /\ calls' = calls + 1

\* the allocator make_unique builds over the memory m: the BuddyAllocator
\* constructor throws on a size that is not a power of two
NewAllocator(m, type) ==
    IF type = "BUDDY"
    THEN LET r == BuddyAllocatorNew(m, MgrMinBlockSize)
         IN  [success |-> r.success, std |-> Idle, buddy |-> r.buddy]
    ELSE [success |-> TRUE, std |-> StandardAllocator(m, type), buddy |-> Idle]

\* Result<void> MemoryManager::initMemory(size): the new PhysicalMemory
\* replaces the old one before the allocator is built; when that throws,
\* allocator_ is left as it was
MgrInitMemory(size) ==
    /\ MgrCalled
    /\ IF size = 0
       THEN Refused("initMemory", size, 0)
       ELSE LET m == PhysicalMemory(size)
                n == mgr.made + 1
                a == NewAllocator(m, mgr.current_allocator_type)
            IN  /\ memory' = m
                /\ std' = IF a.success THEN a.std ELSE std
                /\ buddy' = IF a.success THEN a.buddy ELSE buddy
                /\ mgr' = [mgr EXCEPT
                              !.made = n,
                              !.physical_memory = n,
                              !.allocator_memory = IF a.success THEN n ELSE @]
                /\ last' = Call("initMemory", size, 0, a.success, 0)
                /\ UNCHANGED <<l1, l2, hier, vm>>

\* Result<void> MemoryManager::setAllocator(type)
MgrSetAllocator(type) ==
    /\ MgrCalled
    /\ IF isMemoryInitialized
       THEN LET a == NewAllocator(memory, type)
            IN  /\ std' = IF a.success THEN a.std ELSE std
                /\ buddy' = IF a.success THEN a.buddy ELSE buddy
                /\ mgr' = [mgr EXCEPT
                              !.current_allocator_type = type,
                              !.allocator_memory =
                                  IF a.success THEN mgr.physical_memory ELSE @]
                /\ last' = Call("setAllocator", 0, type, a.success, 0)
       ELSE /\ mgr' = [mgr EXCEPT !.current_allocator_type = type]
            /\ last' = Call("setAllocator", 0, type, TRUE, 0)
            /\ UNCHANGED <<std, buddy>>
    /\ UNCHANGED <<memory, l1, l2, hier, vm>>

\* the call of the allocator the manager holds; the allocator writes
\* used_size into its PhysicalMemory when the call succeeds
AllocatorCall(op, arg, r) ==
    IF r.success /\ Dangling(mgr.allocator_memory)
    THEN Undefined(op, arg, 0)
    ELSE /\ std' = IF std # Idle THEN r.std ELSE std
         /\ buddy' = IF buddy # Idle THEN r.buddy ELSE buddy
         /\ memory' = r.memory
         /\ last' = Call(op, arg, 0, r.success, r.value)
         /\ UNCHANGED <<l1, l2, hier, vm, mgr>>

\* Result<BlockId> MemoryManager::malloc(size)
MgrMalloc(size) ==
    /\ MgrCalled
    /\ IF ~isMemoryInitialized \/ ~isAllocatorSet
       THEN Refused("malloc", size, 0)
       ELSE IF std # Idle
       THEN AllocatorCall("malloc", size, StdAllocateCall(std, memory, size))
       ELSE \E r \in {BuddyAllocateCall(buddy, memory, size)} :
                /\ r.returns
                /\ AllocatorCall("malloc", size, r)

\* Result<void> MemoryManager::free(block_id)
MgrFree(block_id) ==
    /\ MgrCalled
    /\ IF ~isAllocatorSet
       THEN Refused("free", block_id, 0)
       ELSE IF std # Idle
       THEN AllocatorCall("free", block_id, StdDeallocateCall(std, memory, block_id))
       ELSE AllocatorCall("free", block_id, BuddyDeallocateCall(buddy, memory, block_id))

\* Result<void> MemoryManager::freeByAddress(address)
MgrFreeByAddress(address) ==
    /\ MgrCalled
    /\ IF ~isAllocatorSet
       THEN Refused("freeByAddress", address, 0)
       ELSE IF std # Idle
       THEN AllocatorCall("freeByAddress", address,
                          StdDeallocateByAddressCall(std, memory, address))
       ELSE AllocatorCall("freeByAddress", address,
                          BuddyDeallocateByAddressCall(buddy, memory, address))

\* the validation of CacheLevel::CacheLevel
CacheLevelAccepts(cfg) ==
    /\ isPowerOfTwo(cfg.num_sets)
    /\ isPowerOfTwo(cfg.block_size)
    /\ cfg.associativity # 0

\* Result<void> MemoryManager::initCache(...)
MgrInitCache(cfg) ==
    /\ MgrCalled
    /\ IF ~isMemoryInitialized
       THEN Refused("initCache", 0, 0)
       ELSE IF ~(CacheLevelAccepts(cfg.l1) /\ CacheLevelAccepts(cfg.l2))
       THEN Refused("initCache", 0, 0)
       ELSE /\ hier' = CacheHierarchy
            /\ l1' = CacheLevel(1, cfg.l1.num_sets, cfg.l1.associativity,
                                cfg.l1.block_size, cfg.l1.policy)
            /\ l2' = CacheLevel(2, cfg.l2.num_sets, cfg.l2.associativity,
                                cfg.l2.block_size, cfg.l2.policy)
            /\ mgr' = [mgr EXCEPT !.cache_memory = mgr.physical_memory]
            /\ last' = Call("initCache", 0, 0, TRUE, 0)
            /\ UNCHANGED <<memory, std, buddy, vm>>

\* Result<uint8_t> MemoryManager::cacheRead(address): a read that L1 serves
\* does not reach the memory
MgrCacheRead(address) ==
    /\ MgrCalled
    /\ IF ~isCacheInitialized
       THEN Refused("cacheRead", address, 0)
       ELSE IF Dangling(mgr.cache_memory) /\ ~contains(l1, address)
       THEN Undefined("cacheRead", address, 0)
       ELSE \E r \in {HierReadCall(hier, l1, l2, memory, address)} :
                /\ hier' = r.hier
                /\ l1' = r.l1
                /\ l2' = r.l2
                /\ memory' = r.memory
                /\ last' = Call("cacheRead", address, 0, r.success, r.value)
                /\ UNCHANGED <<std, buddy, vm, mgr>>

\* Result<void> MemoryManager::cacheWrite(address, data): the write goes to
\* the memory first
MgrCacheWrite(address, data) ==
    /\ MgrCalled
    /\ IF ~isCacheInitialized
       THEN Refused("cacheWrite", address, data)
       ELSE IF Dangling(mgr.cache_memory)
       THEN Undefined("cacheWrite", address, data)
       ELSE \E r \in {HierWriteCall(hier, l1, l2, memory, address, data)} :
                /\ hier' = r.hier
                /\ l1' = r.l1
                /\ l2' = r.l2
                /\ memory' = r.memory
                /\ last' = Call("cacheWrite", address, data, r.success, r.value)
                /\ UNCHANGED <<std, buddy, vm, mgr>>

\* void MemoryManager::flushCache()
MgrFlushCache ==
    /\ MgrCalled
    /\ IF ~isCacheInitialized
       THEN Refused("flushCache", 0, 0)
       ELSE /\ l1' = CacheFlushCall(l1)
            /\ l2' = CacheFlushCall(l2)
            /\ last' = Call("flushCache", 0, 0, TRUE, 0)
            /\ UNCHANGED <<memory, std, buddy, hier, vm, mgr>>

\* the validation of VirtualMemory::VirtualMemory over the memory m
VirtualMemoryAccepts(m, cfg) ==
    /\ isPowerOfTwo(cfg.page_size)
    /\ cfg.num_virtual_pages # 0
    /\ cfg.num_physical_frames # 0
    /\ cfg.num_physical_frames <= cfg.num_virtual_pages
    /\ cfg.num_physical_frames * cfg.page_size <= m.total_size

\* Result<void> MemoryManager::initVirtualMemory(...)
MgrInitVirtualMemory(cfg) ==
    /\ MgrCalled
    /\ IF ~isMemoryInitialized
       THEN Refused("initVirtualMemory", 0, 0)
       ELSE IF ~VirtualMemoryAccepts(memory, cfg)
       THEN Refused("initVirtualMemory", 0, 0)
       ELSE /\ vm' = VirtualMemory(cfg.num_virtual_pages, cfg.num_physical_frames,
                                   cfg.page_size, cfg.policy)
            /\ mgr' = [mgr EXCEPT !.vm_memory = mgr.physical_memory]
            /\ last' = Call("initVirtualMemory", 0, 0, TRUE, 0)
            /\ UNCHANGED <<memory, std, buddy, l1, l2, hier>>

\* the call of the VirtualMemory the manager holds; reaches says whether the
\* call reads or writes the PhysicalMemory
VirtualMemoryCall(op, virtual_addr, data, reaches, r) ==
    IF Dangling(mgr.vm_memory) /\ reaches
    THEN Undefined(op, virtual_addr, data)
    ELSE /\ vm' = r.vm
         /\ memory' = r.memory
         /\ last' = Call(op, virtual_addr, data, r.success, r.value)
         /\ UNCHANGED <<std, buddy, l1, l2, hier, mgr>>

\* the page of the address is one of the table
PageInRange(virtual_addr) ==
    VmParseAddress(vm, virtual_addr).page_number < vm.num_virtual_pages

\* Result<Address> MemoryManager::vmTranslate(virtual_addr): a page fault
\* loads the page into the memory
MgrVmTranslate(virtual_addr) ==
    /\ MgrCalled
    /\ IF ~isVMInitialized
       THEN Refused("vmTranslate", virtual_addr, 0)
       ELSE \E r \in {VmTranslateCall(vm, memory, virtual_addr)} :
                VirtualMemoryCall("vmTranslate", virtual_addr, 0,
                    /\ PageInRange(virtual_addr)
                    /\ ~vm.page_table[VmParseAddress(vm, virtual_addr).page_number].valid,
                    r)

\* Result<uint8_t> MemoryManager::vmRead(virtual_addr)
MgrVmRead(virtual_addr) ==
    /\ MgrCalled
    /\ IF ~isVMInitialized
       THEN Refused("vmRead", virtual_addr, 0)
       ELSE \E r \in {VmReadCall(vm, memory, virtual_addr)} :
                VirtualMemoryCall("vmRead", virtual_addr, 0,
                                  PageInRange(virtual_addr), r)

\* Result<void> MemoryManager::vmWrite(virtual_addr, data)
MgrVmWrite(virtual_addr, data) ==
    /\ MgrCalled
    /\ IF ~isVMInitialized
       THEN Refused("vmWrite", virtual_addr, data)
       ELSE \E r \in {VmWriteCall(vm, memory, virtual_addr, data)} :
                VirtualMemoryCall("vmWrite", virtual_addr, data,
                                  PageInRange(virtual_addr), r)

(***************************************************************************)
(* A MemoryManager from its construction on.                               *)
(***************************************************************************)
\* the sizes handed to initMemory: none, one that is not a power of two, and
\* a power of two
MgrMemorySizes == {0, 48, 64}
MgrAllocatorTypes == {"FIRST_FIT", "BEST_FIT", "BUDDY"}
MgrMallocSizes == {0, 16, 40}
MgrBlockIds == {1, 2}
MgrFreeAddresses == {0, 16}
\* a hierarchy of two one-line levels, and one whose L1 block size is refused
MgrCacheConfigs ==
    {[l1 |-> [num_sets |-> 1, associativity |-> 1, block_size |-> b, policy |-> "LRU"],
      l2 |-> [num_sets |-> 1, associativity |-> 1, block_size |-> 2, policy |-> "LRU"]] :
        b \in {2, 3}}
MgrCacheAddresses == {0, 2}
\* two pages over one frame, and a configuration without a frame
MgrVmConfigs ==
    {[num_virtual_pages |-> 2, num_physical_frames |-> f, page_size |-> 2,
      policy |-> "FIFO"] : f \in {0, 1}}
MgrVirtualAddresses == {0, 4}

InitMgr ==
    /\ mgr = MemoryManager
    /\ memory = Idle /\ std = Idle /\ buddy = Idle
    /\ l1 = Idle /\ l2 = Idle /\ hier = Idle /\ vm = Idle
    /\ last = Call("init", 0, 0, TRUE, 0)
    /\ pre = Idle
    /\ calls = 0

NextMgr ==
    \/ \E size \in MgrMemorySizes : MgrInitMemory(size)
    \/ \E type \in MgrAllocatorTypes : MgrSetAllocator(type)
    \/ \E size \in MgrMallocSizes : MgrMalloc(size)
    \/ \E block_id \in MgrBlockIds : MgrFree(block_id)
    \/ \E address \in MgrFreeAddresses : MgrFreeByAddress(address)
    \/ \E cfg \in MgrCacheConfigs : MgrInitCache(cfg)
    \/ \E address \in MgrCacheAddresses : MgrCacheRead(address)
    \/ \E address \in MgrCacheAddresses, data \in WriteValues :
           MgrCacheWrite(address, data)
    \/ MgrFlushCache
    \/ \E cfg \in MgrVmConfigs : MgrInitVirtualMemory(cfg)
    \/ \E virtual_addr \in MgrVirtualAddresses : MgrVmTranslate(virtual_addr)
    \/ \E virtual_addr \in MgrVirtualAddresses : MgrVmRead(virtual_addr)
    \/ \E virtual_addr \in MgrVirtualAddresses, data \in VmWriteValues :
           MgrVmWrite(virtual_addr, data)

SpecMgr == InitMgr /\ [][NextMgr]_vars

(***************************************************************************)
(* C39: after any sequence of MemoryManager operations every subsystem the *)
(* manager holds (allocator, cache hierarchy, virtual memory) operates on  *)
(* the manager's current PhysicalMemory; a second initMemory, or one whose *)
(* allocator cannot be built, leaves no subsystem bound to a replaced      *)
(* PhysicalMemory.  initMemory replaces physical_memory_ and touches       *)
(* neither cache_ nor virtual_memory_, and keeps the old allocator_ when   *)
(* the BuddyAllocator constructor throws, so the statement is violated.    *)
(***************************************************************************)
\* the PhysicalMemory objects the held subsystems were built over
HeldMemories ==
    {mgr.allocator_memory, mgr.cache_memory, mgr.vm_memory} \ {Null}

SubsystemsOnCurrentMemory ==
    mgr # Idle => HeldMemories \subseteq {mgr.physical_memory}

\* what the code keeps: a subsystem is bound to the memory that was current
\* when it was built, so nothing dangles before a second PhysicalMemory is
\* made, and a subsystem never names a memory newer than the current one
SubsystemsOnMemoryOfTheirMaking ==
    mgr # Idle =>
        /\ mgr.physical_memory = mgr.made
        /\ \A n \in HeldMemories : 1 <= n /\ n <= mgr.made
        /\ mgr.made <= 1 => HeldMemories \subseteq {mgr.physical_memory}
        /\ (last.op \in {"initCache", "initVirtualMemory"} /\ last.success)
               => (IF last.op = "initCache" THEN mgr.cache_memory
                   ELSE mgr.vm_memory) = mgr.physical_memory

\* a second initMemory left the cache hierarchy on the replaced memory
CacheOnReplacedMemory ==
    /\ mgr # Idle
    /\ last.op = "initMemory" /\ last.success
    /\ Dangling(mgr.cache_memory)

\* an initMemory that failed left the allocator on the replaced memory
AllocatorOnReplacedMemory ==
    /\ mgr # Idle
    /\ last.op = "initMemory" /\ ~last.success /\ last.arg # 0
    /\ Dangling(mgr.allocator_memory)

(***************************************************************************)
(* C40: when setAllocator replaces the allocator over an initialized       *)
(* memory that has live allocations, the new allocator starts with one     *)
(* free block covering all memory and PhysicalMemory.used_size is the sum  *)
(* of the new allocator's allocated block sizes, 0, right after the        *)
(* switch.  Neither allocator constructor calls updateUsedSize, so         *)
(* used_size keeps the total of the replaced allocator.                    *)
(***************************************************************************)
\* setAllocator has just replaced the allocator of a memory with live
\* allocations
SwitchedOverLiveAllocations ==
    /\ mgr # Idle
    /\ last.op = "setAllocator" /\ last.success
    /\ pre.memory # Idle
    /\ ~Dangling(pre.mgr.allocator_memory)
    /\ \/ pre.std # Idle /\ TotalUsed(pre.std.head) > 0
       \/ pre.buddy # Idle /\ BuddyTotalUsed(pre.buddy.allocated_blocks) > 0

\* the allocator the manager holds has one free block covering the memory
OneFreeBlockCoversMemory ==
    \/ /\ std # Idle /\ buddy = Idle
       /\ std.head = <<MemoryBlock(0, memory.total_size, TRUE)>>
       /\ DOMAIN std.allocated_blocks = {}
    \/ /\ buddy # Idle /\ std = Idle
       /\ buddy.free_lists[memory.total_size]
              = <<BuddyBlock(0, memory.total_size, TRUE)>>
       /\ \A sz \in DOMAIN buddy.free_lists :
              sz # memory.total_size => buddy.free_lists[sz] = <<>>
       /\ DOMAIN buddy.allocated_blocks = {}

SwitchResetsUsedSize ==
    SwitchedOverLiveAllocations =>
        /\ OneFreeBlockCoversMemory
        /\ memory.used_size = 0

\* what the code does: the new allocator is empty and used_size is what the
\* replaced allocator left
SwitchKeepsUsedSize ==
    SwitchedOverLiveAllocations =>
        /\ OneFreeBlockCoversMemory
        /\ memory = pre.memory
        /\ memory.used_size > 0
        /\ memory.used_size =
               IF pre.std # Idle THEN TotalUsed(pre.std.head)
               ELSE BuddyTotalUsed(pre.buddy.allocated_blocks)

====
